---- MODULE Spec2Model ----
(***************************************************************************)
(* A model of StarShift (src/src/starshift/star_shift.py): the field       *)
(* processing pipeline of ShiftModel (transform, validate, set, repr,      *)
(* serialize), its type handlers, and the process-wide registries.         *)
(*                                                                         *)
(* Python objects are modelled as tagged records of one shape, so that any *)
(* two of them can be compared:                                            *)
(*   a value  is [k, n, s, e]: k its Python type name, n its number (int   *)
(*            and float), s its characters (str; the field name of an      *)
(*            attribute; the class name of a record instance), e its       *)
(*            elements (list, tuple; the pairs of a dict; the attributes   *)
(*            of a record instance);                                       *)
(*   a type   is [t, c, a]: t its name or generic origin, c the class name *)
(*            (ShiftModel subclasses) or the referenced name (ForwardRef), *)
(*            a its type arguments (get_args).                             *)
(* A handler call returns an outcome [st, res, obj, typ, w, err]: st is    *)
(* "ok" or the exception raised, res the return value, obj the object that *)
(* was passed in as field_info.val as the call leaves it (handlers assign  *)
(* into it), typ the field_info.typ the call leaves, w the module globals  *)
(* after the call, err the exception's details.                            *)
(***************************************************************************)
EXTENDS Integers, Sequences, FiniteSets, TLC

\* ------------------------------------------------------------------ values

Val(k, n, s, e) == [k |-> k, n |-> n, s |-> s, e |-> e]
IntV(i)      == Val("int", i, <<>>, <<>>)
\* the float i + 0.5: equal to no int
FloatV(i)    == Val("float", i, <<>>, <<>>)
StrV(chars)  == Val("str", 0, chars, <<>>)
NoneV        == Val("NoneType", 0, <<>>, <<>>)
TrueV        == Val("bool", 1, <<>>, <<>>)
ListV(es)    == Val("list", 0, <<>>, es)
TupleV(es)   == Val("tuple", 0, <<>>, es)
PairV(k, v)  == Val("pair", 0, <<>>, <<k, v>>)
DictV(ps)    == Val("dict", 0, <<>>, ps)
AttrV(nm, v) == Val("attr", 0, nm, <<v>>)
ModelV(c, attrs) == Val("ShiftModel", 0, c, attrs)
\* the class object of the ShiftModel subclass c
ClassV(c)    == Val("type", 0, c, <<>>)
\* repr(v): the string that displays v; it is a str and differs from v
ReprV(v)     == Val("str", 0, <<"repr">>, <<v>>)

\* a function the program defines
FunctionV(name) == Val("function", 0, name, <<>>)

\* class Missing: the sentinel is the class object itself
Missing      == Val("type", 0, <<"Missing">>, <<>>)

\* ------------------------------------------------------------------- types

Ty(t, c, a)  == [t |-> t, c |-> c, a |-> a]
Plain(t)     == Ty(t, <<>>, <<>>)
IntT         == Plain("int")
StrT         == Plain("str")
FloatT       == Plain("float")
NoneT        == Plain("NoneType")
AnyT         == Plain("Any")
MissingT     == Plain("Missing")
\* the class ShiftField, the type of a field declared by a ShiftField
ShiftFieldT  == Plain("ShiftField")
ListOf(x)    == Ty("list", <<>>, <<x>>)
TupleOf(xs)  == Ty("tuple", <<>>, xs)
DictOf(x, y) == Ty("dict", <<>>, <<x, y>>)
UnionOf(xs)  == Ty("Union", <<>>, xs)
OptionalOf(x) == UnionOf(<<x, NoneT>>)
ModelT(c)    == Ty("ShiftModel", c, <<>>)
ForwardRefT(nm) == Ty("ForwardRef", nm, <<>>)
\* an object that is no type, written where a type is expected: an instance
\* of the builtin class c, as 5 is of int and [int] of list
ObjectT(c)   == Ty("instance", <<c>>, <<>>)

\* typing.get_args
get_args(typ) == typ.a

\* typing.get_origin: the unsubscripted generic of a parameterized type,
\* None (Plain("None") stands for it as a registry key) otherwise
get_origin(typ) == IF typ.a # <<>> THEN Plain(typ.t) ELSE Plain("None")

\* type(typ): classes are instances of `type`, a parameterized generic is a
\* types.GenericAlias (typing._UnionGenericAlias for a Union), a ForwardRef
\* object is an instance of the class ForwardRef
TypeOfType(typ) ==
    IF typ.t = "instance" THEN Plain(typ.c[1])
    ELSE IF typ.a # <<>> THEN Plain("GenericAlias")
    ELSE IF typ.t = "ForwardRef" /\ typ.c # <<>> THEN Plain("ForwardRef")
    ELSE Plain("type")

\* typ.__name__ exists: a ForwardRef object has none (AttributeError)
HasName(typ) == ~(typ.t = "ForwardRef" /\ typ.c # <<>>)

\* isinstance(arg, type) as used by shift_one_of_type_setter
IsClass(typ) == typ.a = <<>> /\ ~(typ.t = "ForwardRef" /\ typ.c # <<>>)

\* --------------------------------------------------------------- registry

\* _shift_builtin_types: each key names its ShiftType bundle
shift_builtin_types ==
    (MissingT :> "missing_shift_type") @@
    (IntT :> "base_shift_type") @@ (Plain("bool") :> "base_shift_type") @@
    (FloatT :> "base_shift_type") @@
    (StrT :> "base_shift_type") @@
    (NoneT :> "none_shift_type") @@
    (AnyT :> "any_shift_type") @@
    (Plain("list") :> "all_of_single_shift_type") @@
    (Plain("tuple") :> "all_of_many_shift_type") @@
    (Plain("dict") :> "all_of_pair_shift_type") @@
    (Plain("Union") :> "one_of_shift_type") @@
    (Plain("ShiftModel") :> "shift_shift_type") @@
    (Plain("ForwardRef") :> "forward_ref_shift_type") @@
    (ShiftFieldT :> "shift_field_shift_type")

\* hash(typ) succeeds: lists and dicts define __hash__ as None
Hashable(typ) == ~(typ.t = "instance" /\ typ.c[1] \in {"list", "dict"})

\* get_shift_type: "None" when no rule matches. Every object has the
\* attribute __hash__ (it is None on a list), so the hasattr guard never
\* returns and `typ in _shift_types` raises TypeError for an unhashable typ;
\* _shift_types[ForwardRef] raises KeyError once ForwardRef is deregistered,
\* while the lookup of ShiftModel sits in a try block. "TypeError" and
\* "KeyError" stand for the raise.
get_shift_type(typ, types) ==
    IF ~Hashable(typ) THEN "TypeError"
    ELSE IF typ \in DOMAIN types THEN types[typ]
    ELSE IF get_origin(typ) \in DOMAIN types THEN types[get_origin(typ)]
    ELSE IF typ.t = "ForwardRef" /\ typ.c # <<>>
         THEN IF Plain("ForwardRef") \in DOMAIN types THEN types[Plain("ForwardRef")]
              ELSE "KeyError"
    ELSE IF typ.t = "ShiftModel" /\ typ.c # <<>> /\ Plain("ShiftModel") \in DOMAIN types
         THEN types[Plain("ShiftModel")]
    ELSE IF TypeOfType(typ) \in DOMAIN types THEN types[TypeOfType(typ)]
    ELSE "None"

\* ----------------------------------------------------------------- config

\* ShiftConfig() with the dataclass defaults
ShiftConfig ==
    [do_processing |-> TRUE, fail_fast |-> FALSE, try_coerce_types |-> FALSE,
     allow_private_field_setting |-> FALSE,
     include_default_fields_in_serialization |-> FALSE,
     include_private_fields_in_serialization |-> FALSE]

\* ShiftConfig.serialize: the flags that differ from the dataclass defaults,
\* as the pairs of a dict
ShiftConfig_serialize(cfg) ==
    LET one(flag, on) == IF on THEN <<PairV(StrV(<<flag>>), TrueV)>> ELSE <<>> IN
    DictV(  (IF ~cfg.do_processing
             THEN <<PairV(StrV(<<"do_processing">>), Val("bool", 0, <<>>, <<>>))>>
             ELSE <<>>)
         \o one("fail_fast", cfg.fail_fast)
         \o one("try_coerce_types", cfg.try_coerce_types)
         \o one("allow_private_field_setting", cfg.allow_private_field_setting)
         \o one("include_default_fields_in_serialization",
                cfg.include_default_fields_in_serialization)
         \o one("include_private_fields_in_serialization",
                cfg.include_private_fields_in_serialization))

\* --------------------------------------------------------------- outcomes

\* an error: msg holds the constraint messages a ShiftField validation joined
\* into the message of its error, empty for every other error
NoErr == [type |-> "", name |-> <<>>, process |-> "", errors |-> <<>>, msg |-> <<>>]
Err(type, name, process, errors) ==
    [type |-> type, name |-> name, process |-> process, errors |-> errors, msg |-> <<>>]

Out(st, res, obj, typ, w, err) ==
    [st |-> st, res |-> res, obj |-> obj, typ |-> typ, w |-> w, err |-> err]
Ok(res, obj, typ, w) == Out("ok", res, obj, typ, w, NoErr)
Raise(st, obj, typ, w) == Out(st, NoneV, obj, typ, w, Err(st, <<>>, "", <<>>))
\* an exception passing through a frame: the frame's object and type, the
\* callee's exception and globals
Pass(r, obj, typ) == Out(r.st, NoneV, obj, typ, r.w, r.err)

ShiftErrors ==
    {"ShiftTypeMismatchError", "UnknownShiftTypeError", "ShiftFieldError",
     "ShiftModelError"}

\* ShiftFieldInfo(name, typ, val, default)
ShiftFieldInfo(name, typ, val, default) ==
    [name |-> name, typ |-> typ, val |-> val, default |-> default]

\* ------------------------------------------------------------ Python glue

\* isinstance(val, typ) for the base types (bool is a subclass of int)
isinstance(val, typ) == val.k = typ.t \/ (val.k = "bool" /\ typ.t = "int")

\* isinstance(val, Iterable)
IsIterable(val) == val.k \in {"list", "tuple", "dict", "str"}

\* what iterating val yields: the elements, the keys of a dict, the
\* characters of a str
Iterate(val) ==
    IF val.k = "dict" THEN [i \in 1..Len(val.e) |-> val.e[i].e[1]]
    ELSE IF val.k = "str" THEN [i \in 1..Len(val.s) |-> StrV(<<val.s[i]>>)]
    ELSE val.e

\* len(val)
PyLen(val) == Len(Iterate(val))

\* bool(val)
Truthy(val) ==
    CASE val.k \in {"bool", "int"} -> val.n # 0
      [] val.k = "NoneType" -> FALSE
      [] val.k \in {"list", "tuple", "dict"} -> val.e # <<>>
      [] val.k = "str" -> val.s # <<>>
      [] OTHER -> TRUE

\* _can_index: val[0] can be read and assigned (a non-empty list)
can_index(val) == val.k = "list" /\ Len(val.e) > 0

\* get_origin(field_info.typ)(items): the container built back from a list
Rebuild(typ, items) == Val(typ.t, 0, <<>>, items)

\* name.startswith("_")
IsPrivateName(name) == Len(name) > 0 /\ name[1] = "_"

\* name.startswith("__") and name.endswith("__")
IsMagicName(name) ==
    /\ Len(name) >= 2
    /\ name[1] = "_" /\ name[2] = "_"
    /\ name[Len(name)] = "_" /\ name[Len(name) - 1] = "_"

\* ---------------------------------------------------------------- globals

\* the globals as a new top-level call finds them: nothing traced yet
Untraced(w) == [w EXCEPT !.log = <<>>, !.used = <<>>]

\* an empty dict
EmptyMap == [x \in {} |-> NoneV]

\* the key an object is looked up or stored under in a dict: a str by its
\* characters, a type object by its identity
StrKey(name) == StrV(name)
TypeKey(typ) == Val("typeobj", 0, <<typ.t>> \o typ.c, <<>>)

\* register_forward_ref: a ForwardRef is stored under its __forward_arg__
register_forward_ref(ref, typ, w) ==
    LET key == IF ref.t = "ForwardRef" /\ ref.c # <<>> THEN StrKey(ref.c) ELSE TypeKey(ref)
    IN  [w EXCEPT !.fwd = (key :> typ) @@ w.fwd]

\* the names resolve_forward_ref finds in the module of the class, and in
\* builtins
ModuleTypes == EmptyMap
BuiltinTypes == (<<"int">> :> IntT) @@ (<<"str">> :> StrT) @@ (<<"float">> :> FloatT)

\* resolve_forward_ref(typ, info); every invocation is logged
resolve_forward_ref(typ, info, w) ==
    LET isRef == typ.t = "ForwardRef" /\ typ.c # <<>>
        key   == IF isRef THEN StrKey(typ.c) ELSE TypeKey(typ)
        w1    == [w EXCEPT !.log = Append(@, <<"resolve_forward_ref", info.model_name,
                                               IF isRef THEN typ.c ELSE <<typ.t>>\o typ.c>>)]
        store(t) == Ok(NoneV, NoneV, t, [w1 EXCEPT !.fwd = (key :> t) @@ w1.fwd])
    IN  IF key \in DOMAIN w1.fwd THEN Ok(NoneV, NoneV, w1.fwd[key], w1)
        ELSE IF isRef /\ typ.c = info.model_name THEN store(ModelT(info.model_name))
        ELSE IF isRef /\ typ.c \in DOMAIN w1.reg THEN store(ModelT(typ.c))
        \* hasattr(module, typ) raises TypeError unless typ is a str
        ELSE IF ~isRef THEN Raise("TypeError", NoneV, typ, w1)
        ELSE IF typ.c \in DOMAIN ModuleTypes THEN store(ModuleTypes[typ.c])
        ELSE IF typ.c \in DOMAIN BuiltinTypes THEN store(BuiltinTypes[typ.c])
        ELSE Raise("ShiftFieldError", NoneV, typ, w1)

\* shift_function_wrapper for a builtin type function (three parameters):
\* the first call inspects the signature and caches it as advanced
shift_function_cached(func, w) == [w EXCEPT !.funcs = (func :> TRUE) @@ w.funcs]

Mismatch(obj, typ, w) == Raise("ShiftTypeMismatchError", obj, typ, w)

\* ------------------------------------------- functions and ShiftFields

\* the decoration and the body of a function of a class: params its number
\* of parameters, for/kind/pre/skip what its shift_* decorator recorded
FunctionDef(params, for, kind, pre, skip, body) ==
    [params |-> params, for |-> for, kind |-> kind, pre |-> pre, skip |-> skip,
     body |-> body]

\* the functions the program defines
Functions ==
    \* H: @shift_transformer('a', pre=True)  def keep(self, val): return val
    (<<"keep">> :> FunctionDef(2, <<<<"a">>>>, "transformer", TRUE, TRUE, "return val")) @@
    \* the validator of V's ShiftField:  def accept(instance, val): return True
    (<<"accept">> :> FunctionDef(2, <<>>, "", FALSE, FALSE, "return True")) @@
    \* K: @shift_transformer('a', pre=True)  def skip_a(self, val): return val + 1
    \*    @shift_transformer('a')  def post_a(self, val): return val + 1
    \*    @shift_transformer('b', pre=True, skip_when_pre=False)
    \*    def pre_b(self, val): return val + 1
    \*    @shift_transformer('b')  def post_b(self, field, info): return field.val + 1
    (<<"skip_a">> :> FunctionDef(2, <<<<"a">>>>, "transformer", TRUE, TRUE, "return val + 1")) @@
    (<<"post_a">> :> FunctionDef(2, <<<<"a">>>>, "transformer", FALSE, FALSE, "return val + 1")) @@
    (<<"pre_b">> :> FunctionDef(2, <<<<"b">>>>, "transformer", TRUE, FALSE, "return val + 1")) @@
    (<<"post_b">> :> FunctionDef(3, <<<<"b">>>>, "transformer", FALSE, FALSE, "return val + 1")) @@
    \* Q: @shift_transformer('a', pre=True)  def keep_a(self, val): return val
    \*    @shift_validator('a')  def vpost_a(self, val): return True
    \*    @shift_validator('b', pre=True, skip_when_pre=False)
    \*    def vpre_b(self, val): return val != 0
    \*    @shift_validator('b')  def vpost_b(self, field, info): return True
    \*    @shift_validator('c', pre=True)  def vskip_c(self, val): return val != 0
    \*    @shift_validator('c')  def vpost_c(self, val): return True
    (<<"keep_a">> :> FunctionDef(2, <<<<"a">>>>, "transformer", TRUE, TRUE, "return val")) @@
    (<<"vpost_a">> :> FunctionDef(2, <<<<"a">>>>, "validator", FALSE, FALSE, "return True")) @@
    (<<"vpre_b">> :> FunctionDef(2, <<<<"b">>>>, "validator", TRUE, FALSE, "return val != 0")) @@
    (<<"vpost_b">> :> FunctionDef(3, <<<<"b">>>>, "validator", FALSE, FALSE, "return True")) @@
    (<<"vskip_c">> :> FunctionDef(2, <<<<"c">>>>, "validator", TRUE, TRUE, "return val != 0")) @@
    (<<"vpost_c">> :> FunctionDef(2, <<<<"c">>>>, "validator", FALSE, FALSE, "return True")) @@
    \* E: @shift_setter('a')  def set_a(self, val): setattr(self, 'a', val + 1)
    \*    @shift_repr('_p', 'd')  def show(self, val): return val + 1
    \*    @shift_serializer('_p', 'd')  def dump(self, val): return val + 1
    (<<"set_a">> :> FunctionDef(2, <<<<"a">>>>, "setter", FALSE, FALSE,
                                "setattr(self, name, val + 1)")) @@
    (<<"show">> :> FunctionDef(2, <<<<"_", "p">>, <<"d">>>>, "repr", FALSE, FALSE,
                               "return val + 1")) @@
    (<<"dump">> :> FunctionDef(2, <<<<"_", "p">>, <<"d">>>>, "serializer", FALSE, FALSE,
                               "return val + 1")) @@
    \* J: @shift_transformer('a')  def wide(self, val, field, info): return val
    (<<"wide">> :> FunctionDef(4, <<<<"a">>>>, "transformer", FALSE, FALSE, "return val")) @@
    \* the check and the validator of Z's ShiftField:
    \*    def even(val): return val % 2 == 0
    \*    def small(instance, val): return val != 0
    (<<"even">> :> FunctionDef(1, <<>>, "", FALSE, FALSE, "return val % 2 == 0")) @@
    (<<"small">> :> FunctionDef(2, <<>>, "", FALSE, FALSE, "return val != 0")) @@
    \* the validator of never_shift_type:  def never(instance, val): return False
    (<<"never">> :> FunctionDef(2, <<>>, "", FALSE, FALSE, "return False"))

\* val + 1 and val % 2: defined for numbers, TypeError for the rest
IsNumber(val) == val.k \in {"int", "bool", "float"}
Plus1(val) == IF val.k = "float" THEN FloatV(val.n + 1) ELSE IntV(val.n + 1)

\* whether the body of a function raises TypeError for the value
FunctionRaises(def, val) ==
    /\ def.body \in {"return val + 1", "setattr(self, name, val + 1)",
                     "return val % 2 == 0"}
    /\ ~IsNumber(val)

\* what the body of a function returns for the value of the field: a simple
\* function is passed field.val as val, an advanced one reads field.val
FunctionResult(def, val) ==
    CASE def.body = "return val" -> val
      [] def.body = "return True" -> TrueV
      [] def.body = "return False" -> Val("bool", 0, <<>>, <<>>)
      [] def.body = "return val != 0" ->
            Val("bool", IF IsNumber(val) /\ val.n = 0 /\ val.k # "float" THEN 0 ELSE 1,
                <<>>, <<>>)
      [] def.body = "return val + 1" -> Plus1(val)
      [] def.body = "return val % 2 == 0" ->
            Val("bool", IF val.k # "float" /\ val.n % 2 = 0 THEN 1 ELSE 0, <<>>, <<>>)
      [] def.body = "setattr(self, name, val + 1)" -> NoneV

\* shift_function_wrapper without the cache lookup: it inspects the signature
\* on every call
shift_function_wrapper_inspecting(f, info, func, w) ==
    LET def == w.defs[func]
        advanced == def.params = 3
        w1 == [w EXCEPT !.log = Append(@, <<"signature", func, <<>>>>)]
        w2 == IF def.params \notin {2, 3} THEN w1
              ELSE [w1 EXCEPT !.funcs = (func :> advanced) @@ w.funcs]
        w3 == [w2 EXCEPT !.log = Append(@, <<"call", func,
                                             <<IF advanced THEN "advanced" ELSE "simple">>>>)]
    IN  IF def.params \notin {2, 3}
        THEN Out("ShiftFieldError", NoneV, f.val, f.typ, w1,
                 Err("ShiftFieldError", info.model_name, "", <<>>))
        ELSE IF FunctionRaises(def, f.val) THEN Raise("TypeError", f.val, f.typ, w3)
        ELSE Ok(FunctionResult(def, f.val), f.val, f.typ, w3)

\* shift_function_wrapper for a function of the program: two parameters
\* make it simple, three advanced, cached after the first inspection.  The
\* trace gets <<"signature", func, <<>>>> for inspect.signature(func) and
\* <<"call", func, <<"simple">>>> or <<"call", func, <<"advanced">>>> for
\* the call with (instance, val) or with (instance, field, info).
shift_function_wrapper(f, info, func, w) ==
    LET def == w.defs[func]
        known == func \in DOMAIN w.funcs
        advanced == IF known THEN w.funcs[func] ELSE def.params = 3
        w1  == IF known THEN w
               ELSE [w EXCEPT !.log = Append(@, <<"signature", func, <<>>>>)]
        w2  == IF known \/ def.params \notin {2, 3} THEN w1
               ELSE [w1 EXCEPT !.funcs = (func :> advanced) @@ w.funcs]
        w3  == [w2 EXCEPT !.log = Append(@, <<"call", func,
                                    <<IF advanced THEN "advanced" ELSE "simple">>>>)]
    IN  IF ~known /\ def.params \notin {2, 3}
        THEN Out("ShiftFieldError", NoneV, f.val, f.typ, w1,
                 Err("ShiftFieldError", info.model_name, "", <<>>))
        \* the call itself raises TypeError when the cached classification
        \* does not fit the parameters of the function
        ELSE IF def.params # (IF advanced THEN 3 ELSE 2) \/ FunctionRaises(def, f.val)
        THEN Raise("TypeError", f.val, f.typ, w3)
        ELSE Ok(FunctionResult(def, f.val), f.val, f.typ, w3)

\* ShiftField(...): the attributes the class bodies of the model set; the
\* others keep their defaults (no transformer, setter, repr_func or
\* serializer, no repr_as or serialize_as, nothing deferred or excluded, and
\* None for every constraint that is not named)
ShiftField(type, default, default_skips, ge, validator, validator_skips) ==
    [type |-> type, default |-> default, default_skips |-> default_skips, ge |-> ge,
     validator |-> validator, validator_skips |-> validator_skips,
     eq |-> NoneV, le |-> NoneV, gt |-> NoneV, ne |-> NoneV, lt |-> NoneV,
     min_len |-> NoneV, max_len |-> NoneV, pattern |-> NoneV, check |-> NoneV]

\* The ShiftField objects of the class bodies, by class and field, as
\* get_fields leaves them (it assigns the annotation to type):
\*   A: val: int = ShiftField(default=5, ge=10, default_skips=True)
\*   G: val: int = ShiftField(default=5, ge=10)
\*   V: val = ShiftField(type=int, validator=accept, validator_skips=True)
\*   Z: val: Any = ShiftField(ge=2, eq=4, le=5, gt=2, ne=3, lt=5, pattern="4",
\*                            check=even, validator=small)
\*   O: xs: list[int] = ShiftField(min_len=0, max_len=2)
ShiftFields ==
    (<<"A", "val">> :> ShiftField(IntT, IntV(5), TRUE, IntV(10), NoneV, FALSE)) @@
    (<<"G", "val">> :> ShiftField(IntT, IntV(5), FALSE, IntV(10), NoneV, FALSE)) @@
    (<<"V", "val">> :> ShiftField(IntT, Missing, FALSE, NoneV, FunctionV(<<"accept">>), TRUE)) @@
    (<<"Z", "val">> :>
        [ShiftField(AnyT, Missing, FALSE, IntV(2), FunctionV(<<"small">>), FALSE)
         EXCEPT !.eq = IntV(4), !.le = IntV(5), !.gt = IntV(2), !.ne = IntV(3),
                !.lt = IntV(5), !.pattern = StrV(<<"4">>),
                !.check = FunctionV(<<"even">>)]) @@
    (<<"O", "xs">> :>
        [ShiftField(ListOf(IntT), Missing, FALSE, NoneV, NoneV, FALSE)
         EXCEPT !.min_len = IntV(0), !.max_len = IntV(2)])

\* a ShiftField object of a class body
ShiftFieldV(name) == Val("ShiftField", 0, name, <<>>)

\* isinstance(val, ShiftField)
IsShiftField(val) == val.k = "ShiftField"

\* ShiftField.get_default(): there is no default_factory in the model
get_default(sf) == sf.default

\* a < b, a > b and the like raise TypeError unless both are numbers (the
\* constraints of the model are ints)
Comparable(a, b) ==
    a.k \in {"int", "bool", "float"} /\ b.k \in {"int", "bool", "float"}

\* twice the number a: FloatV(i) is the float i + 0.5
Twice(a) == 2 * a.n + (IF a.k = "float" THEN 1 ELSE 0)

\* a < b for numbers
Less(a, b) == Twice(a) < Twice(b)

\* a == b for a value a and an int b
NumEq(a, b) == Comparable(a, b) /\ Twice(a) = Twice(b)

\* the first decimal digit of a natural number
RECURSIVE LeadingDigit(_)
LeadingDigit(n) == IF n < 10 THEN n ELSE LeadingDigit(n \div 10)

\* re.match(pattern, str(val)) for a pattern that is one digit: str(val)
\* begins with that digit
Matches(pattern, val) ==
    CASE val.k \in {"int", "float"} ->
            val.n >= 0 /\ <<"0", "1", "2", "3", "4", "5", "6", "7", "8", "9">>
                              [LeadingDigit(val.n) + 1] = pattern.s[1]
      [] val.k = "str" -> val.s # <<>> /\ val.s[1] = pattern.s[1]
      [] OTHER -> FALSE

\* one `if self.c is not None` block of ShiftField.validate: the message it
\* appends to errors, if any
Constraint(c, raises, fails, failed, raised) ==
    IF c = NoneV THEN <<>>
    ELSE IF raises THEN <<raised>>
    ELSE IF fails THEN <<failed>>
    ELSE <<>>

\* ShiftField.validate: the list of errors, every configured constraint
\* being checked; rv is what the call of the custom validator gave
ShiftField_errors(sf, val, rv) ==
    Constraint(sf.ge, ~Comparable(val, sf.ge), Less(val, sf.ge),
               "Must be >= ge", "ge was set, but val could not be compared to ge")
    \o Constraint(sf.eq, FALSE, ~NumEq(val, sf.eq),
               "Must be == eq", "eq was set, but val could not be compared to eq")
    \o Constraint(sf.le, ~Comparable(val, sf.le), Less(sf.le, val),
               "Must be <= le", "le was set, but val could not be compared to le")
    \o Constraint(sf.gt, ~Comparable(val, sf.gt), ~Less(sf.gt, val),
               "Must be > gt", "gt was set, but val could not be compared to gt")
    \o Constraint(sf.ne, FALSE, NumEq(val, sf.ne),
               "Must be != ne", "ne was set, but val could not be compared to ne")
    \o Constraint(sf.lt, ~Comparable(val, sf.lt), ~Less(val, sf.lt),
               "Must be < lt", "lt was set, but val could not be compared to lt")
    \o Constraint(sf.min_len, ~IsIterable(val), PyLen(val) <= sf.min_len.n,
               "len(val) must be > min_len",
               "min_len was set, but len(val) could not be compared to min_len")
    \o Constraint(sf.max_len, ~IsIterable(val), PyLen(val) >= sf.max_len.n,
               "len(val) must be < max_len",
               "max_len was set, but len(val) could not be compared to max_len")
    \o Constraint(sf.pattern, FALSE, ~Matches(sf.pattern, val),
               "str(val) must match the pattern",
               "pattern was set, but str(val) could not be compared to pattern")
    \o (IF sf.check = NoneV THEN <<>>
        ELSE Constraint(sf.check, FunctionRaises(rv.w.defs[sf.check.s], val),
                        ~Truthy(FunctionResult(rv.w.defs[sf.check.s], val)),
                        "val failed custom check", "Check raised"))
    \o Constraint(sf.validator, rv.st # "ok", ~Truthy(rv.res),
                  "val failed custom validator", "ShiftValidator raised")

\* ShiftField_validated that gives up at the first failing constraint
ShiftField_validated_first(sf, f, w, rv) ==
    IF ShiftField_errors(sf, f.val, rv) = <<>> THEN Ok(TrueV, f.val, f.typ, rv.w)
    ELSE [Mismatch(f.val, f.typ, rv.w)
          EXCEPT !.err.msg = <<Head(ShiftField_errors(sf, f.val, rv))>>]

\* shift_shift_field_type_validator after ShiftField.validate: True without
\* errors, else a ShiftTypeMismatchError whose message joins the errors; the
\* globals are those the call of the custom validator leaves
ShiftField_validated(sf, f, w, rv) ==
    IF ShiftField_errors(sf, f.val, rv) = <<>> THEN Ok(TrueV, f.val, f.typ, rv.w)
    ELSE [Mismatch(f.val, f.typ, rv.w) EXCEPT !.err.msg = ShiftField_errors(sf, f.val, rv)]

ShiftField_validate(sf, f, info, w) ==
    ShiftField_validated(sf, f, w,
        IF sf.validator = NoneV THEN Ok(TrueV, f.val, f.typ, w)
        ELSE shift_function_wrapper(f, info, sf.validator.s, w))

\* ------------------------------------------------------- type transformers

\* The call of a type function or of a method of ShiftModel, by its name:
\* Invoke, below, holds what each of them does.
RECURSIVE Invoke(_, _, _, _, _)

\* shift_type_transformer, shift_type_validator, shift_type_setter,
\* shift_type_repr or shift_type_serializer, as a type function calls the
\* one of its own phase
TypeFunction(phase, f, info, w) == Invoke(phase, f, info, NoneV, w)

\* ShiftModel.__init__(**data) of class c: res the instance, obj the data as
\* the call leaves them
ShiftModel_init(c, data, w) == Invoke("__init__", c, data, NoneV, w)

\* ShiftModel.__repr__(): res the string, obj the instance as the call leaves it
ShiftModel_repr(instance, w) == Invoke("__repr__", instance, NoneV, NoneV, w)

\* ShiftModel.serialize(): res the dict, obj the instance as the call leaves it
ShiftModel_serialize(instance, w) == Invoke("serialize", instance, NoneV, NoneV, w)

\* ShiftFieldInfo(name, typ, val): the temporary field of an element
TmpField(f, typ, val) == ShiftFieldInfo(f.name, typ, val, Missing)

shift_missing_type_transformer(f, info, w) ==
    IF f.val = Missing THEN Mismatch(f.val, f.typ, w) ELSE Ok(f.val, f.val, f.typ, w)

shift_base_type_transformer(f, info, w) ==
    IF ~isinstance(f.val, f.typ) THEN Mismatch(f.val, f.typ, w)
    ELSE Ok(f.val, f.val, f.typ, w)

shift_none_type_transformer(f, info, w) ==
    IF f.val # NoneV /\ f.val # Missing THEN Mismatch(f.val, f.typ, w)
    ELSE Ok(NoneV, f.val, f.typ, w)

shift_any_type_transformer(f, info, w) ==
    IF f.val = Missing THEN Mismatch(f.val, f.typ, w) ELSE Ok(f.val, f.val, f.typ, w)

\* The loop of the one_of functions from member i on: the first member whose
\* type function returns wins, a ShiftTypeMismatchError moves on to the next
\* member, any other exception leaves the loop.  `direct` is FALSE in the
\* setter, which replaces a member that is not a class by its type().  The
\* name of the temporary field reads arg.__name__.
RECURSIVE one_of_loop(_, _, _, _, _, _, _)
one_of_loop(phase, direct, f, val, i, info, w) ==
    LET args == get_args(f.typ) IN
    IF i > Len(args) THEN Mismatch(val, f.typ, w)
    ELSE IF ~HasName(args[i]) THEN Raise("AttributeError", val, f.typ, w)
    ELSE LET arg == IF direct \/ IsClass(args[i]) THEN args[i] ELSE TypeOfType(args[i])
             r   == TypeFunction(phase, TmpField(f, arg, val), info, w)
         IN  IF r.st = "ok" THEN Ok(r.res, r.obj, f.typ, r.w)
             ELSE IF r.st = "ShiftTypeMismatchError"
                  THEN one_of_loop(phase, direct, f, r.obj, i + 1, info, r.w)
             ELSE Pass(r, r.obj, f.typ)

shift_one_of_type_transformer(f, info, w) ==
    IF get_args(f.typ) = <<>> THEN Ok(f.val, f.val, f.typ, w)
    ELSE one_of_loop("transformer", TRUE, f, f.val, 1, info, w)

\* The loop of the all_of_single and all_of_many transformers and setters
\* over field_info.val (a list by now) from index i on: element i is replaced
\* by what the type function of typs[i] returns.  work holds the list, objs
\* the elements that were passed in, as the calls leave them.
RECURSIVE all_of_loop(_, _, _, _, _, _, _, _)
all_of_loop(phase, f, typs, work, objs, i, info, w) ==
    IF i > Len(work) \/ i > Len(typs)
    THEN Out("ok", ListV(work), ListV(objs), f.typ, w, NoErr)
    ELSE IF ~HasName(typs[i])
    THEN Out("AttributeError", ListV(work), ListV(objs), f.typ, w,
             Err("AttributeError", <<>>, "", <<>>))
    ELSE LET r == TypeFunction(phase, TmpField(f, typs[i], work[i]), info, w)
             objs2 == [objs EXCEPT ![i] = r.obj]
         IN  IF r.st = "ok"
             THEN all_of_loop(phase, f, typs, [work EXCEPT ![i] = r.res], objs2,
                              i + 1, info, r.w)
             ELSE IF r.st = "ShiftTypeMismatchError"
                  THEN Out(r.st, ListV([work EXCEPT ![i] = r.obj]), ListV(objs2),
                           f.typ, r.w, Err(r.st, <<>>, "", <<>>))
             ELSE Out(r.st, ListV([work EXCEPT ![i] = r.obj]), ListV(objs2),
                      f.typ, r.w, r.err)

\* The frame around all_of_loop: a value that cannot be indexed is copied
\* into a list first and built back from it at the end; one that can is
\* assigned into.
all_of_unframe(f, indexable, r) ==
    LET obj == IF indexable THEN r.res
               ELSE IF f.val.k = "tuple" THEN TupleV(r.obj.e) ELSE f.val
    IN  IF r.st = "ok"
        THEN Ok(IF indexable THEN r.res ELSE Rebuild(f.typ, r.res.e), obj, f.typ, r.w)
        ELSE Out(r.st, NoneV, obj, f.typ, r.w, r.err)

all_of_frame(phase, f, typs, info, w) ==
    all_of_unframe(f, can_index(f.val),
                   all_of_loop(phase, f, typs, Iterate(f.val), Iterate(f.val), 1, info, w))

shift_all_of_single_type_transformer(f, info, w) ==
    LET args == get_args(f.typ) IN
    IF args = <<>> THEN Ok(f.val, f.val, f.typ, w)
    ELSE IF Len(args) # 1 THEN Mismatch(f.val, f.typ, w)
    ELSE IF ~IsIterable(f.val) THEN Mismatch(f.val, f.typ, w)
    ELSE all_of_frame("transformer", f, [i \in 1..PyLen(f.val) |-> args[1]], info, w)

\* the all_of_many transformer without the comparison of the lengths
shift_all_of_many_type_transformer_unsized(f, info, w) ==
    LET args == get_args(f.typ) IN
    IF args = <<>> THEN Ok(f.val, f.val, f.typ, w)
    ELSE IF ~IsIterable(f.val) THEN Mismatch(f.val, f.typ, w)
    ELSE all_of_frame("transformer", f, args, info, w)

shift_all_of_many_type_transformer(f, info, w) ==
    LET args == get_args(f.typ) IN
    IF args = <<>> THEN Ok(f.val, f.val, f.typ, w)
    ELSE IF ~IsIterable(f.val) THEN Mismatch(f.val, f.typ, w)
    ELSE IF PyLen(f.val) # Len(args) THEN Mismatch(f.val, f.typ, w)
    ELSE all_of_frame("transformer", f, args, info, w)

\* new_val[key] = val on the pairs of a dict
DictSet(pairs, key, val) ==
    IF \E j \in 1..Len(pairs) : pairs[j].e[1] = key
    THEN [j \in 1..Len(pairs) |->
            IF pairs[j].e[1] = key THEN PairV(key, val) ELSE pairs[j]]
    ELSE Append(pairs, PairV(key, val))

\* the ShiftTypeMismatchError of the all_of_pair functions: its message reads
\* the __name__ of the type argument
PairMismatch(arg, obj, typ, w) ==
    IF HasName(arg) THEN Mismatch(obj, typ, w) ELSE Raise("AttributeError", obj, typ, w)

\* The loop of the all_of_pair transformer and setter over the items of
\* field_info.val from item i on, filling new_val; objs holds the items that
\* were passed in, as the calls leave them.
RECURSIVE all_of_pair_loop(_, _, _, _, _, _, _)
all_of_pair_loop(phase, f, new_val, objs, i, info, w) ==
    LET args == get_args(f.typ) IN
    IF i > Len(objs) THEN Ok(DictV(new_val), DictV(objs), f.typ, w)
    ELSE LET key == objs[i].e[1]
             val == objs[i].e[2]
             rk  == TypeFunction(phase, TmpField(f, args[1], key), info, w)
             rv  == IF Len(args) > 1
                    THEN TypeFunction(phase, TmpField(f, args[2], val), info, rk.w)
                    ELSE Ok(val, val, f.typ, rk.w)
             objs2 == [objs EXCEPT ![i] = PairV(key, rv.obj)]
         IN  IF rk.st = "ShiftTypeMismatchError"
             THEN PairMismatch(args[1], DictV(objs), f.typ, rk.w)
             ELSE IF rk.st # "ok" THEN Pass(rk, DictV(objs), f.typ)
             ELSE IF rv.st = "ShiftTypeMismatchError"
             THEN PairMismatch(args[2], DictV(objs2), f.typ, rv.w)
             ELSE IF rv.st # "ok" THEN Pass(rv, DictV(objs2), f.typ)
             ELSE all_of_pair_loop(phase, f, DictSet(new_val, rk.res, rv.res), objs2,
                                   i + 1, info, rv.w)

\* hasattr(val, "items")
HasItems(val) == val.k = "dict"

shift_all_of_pair_type_transformer(f, info, w) ==
    IF get_args(f.typ) = <<>> THEN Ok(f.val, f.val, f.typ, w)
    ELSE IF ~HasItems(f.val) THEN Mismatch(f.val, f.typ, w)
    ELSE all_of_pair_loop("transformer", f, <<>>, f.val.e, 1, info, w)

\* The forward_ref functions: the cache is looked up under field_info.typ
\* itself; otherwise the reference is resolved, registered and written to
\* field_info.typ, and the type function of the phase runs on the field. Any
\* exception on that path is turned into a ShiftTypeMismatchError.
forward_ref_resolved(phase, f, info, r1) ==
    LET r2 == TypeFunction(phase, [f EXCEPT !.typ = r1.typ], info,
                           register_forward_ref(f.typ, r1.typ, r1.w))
    IN  IF r1.st # "ok" THEN Mismatch(f.val, f.typ, r1.w)
        ELSE IF r2.st # "ok" THEN Mismatch(r2.obj, r2.typ, r2.w)
        ELSE r2

forward_ref_function(phase, f, info, w) ==
    IF TypeKey(f.typ) \in DOMAIN w.fwd
    THEN TypeFunction(phase, [f EXCEPT !.typ = w.fwd[TypeKey(f.typ)]], info, w)
    ELSE forward_ref_resolved(phase, f, info, resolve_forward_ref(f.typ, info, w))

shift_forward_ref_type_transformer(f, info, w) ==
    forward_ref_function("transformer", f, info, w)

\* isinstance(val, ShiftModel) or issubclass(val, ShiftModel), the TypeError
\* of issubclass on a non-class swallowed
IsShiftModel(val) == val.k = "ShiftModel" \/ (val.k = "type" /\ val # Missing)

\* the shift transformer constructing the record from a dict at once
shift_shift_type_transformer_eager(f, info, w) ==
    IF IsShiftModel(f.val) THEN Ok(f.val, f.val, f.typ, w)
    ELSE IF f.val.k = "dict" THEN ShiftModel_init(f.typ.c, f.val, w)
    ELSE Mismatch(f.val, f.typ, w)

shift_shift_type_transformer(f, info, w) ==
    IF IsShiftModel(f.val) THEN Ok(f.val, f.val, f.typ, w)
    ELSE IF f.val.k = "dict" THEN Ok(f.val, f.val, f.typ, w)
    ELSE Mismatch(f.val, f.typ, w)

\* a ShiftField function after the type function of default.type returned or
\* raised r: the field keeps the type ShiftField
shift_field_typed(f, r) == Out(r.st, r.res, r.obj, f.typ, r.w, r.err)

\* shift_shift_field_type_transformer: a missing or None value is replaced
\* by the default, which default_skips then returns as it is; otherwise the
\* value goes through the type transformer of default.type
shift_shift_field_type_transformer(f, info, w) ==
    LET sf == w.fields[f.default.s]
        absent == f.val = Missing \/ f.val = NoneV
        val == IF absent THEN get_default(sf) ELSE f.val
    IN  IF ~IsShiftField(f.default) THEN Mismatch(f.val, f.typ, w)
        ELSE IF absent /\ sf.default_skips THEN Ok(val, f.val, f.typ, w)
        ELSE shift_field_typed(f,
                 TypeFunction("transformer", TmpField(f, sf.type, val), info, w))

\* shift_type_transformer: the registry lookup, then the transformer of the
\* ShiftType through shift_function_wrapper
shift_type_transformer(f, info, w) ==
    LET shift_typ == get_shift_type(f.typ, w.types)
        fn == <<shift_typ, "transformer">>
        w1 == shift_function_cached(fn, w)
    IN  CASE shift_typ = "None" -> Raise("UnknownShiftTypeError", f.val, f.typ, w)
          [] shift_typ \in {"TypeError", "KeyError"} -> Raise(shift_typ, f.val, f.typ, w)
          [] shift_typ = "missing_shift_type" -> shift_missing_type_transformer(f, info, w1)
          [] shift_typ = "base_shift_type" -> shift_base_type_transformer(f, info, w1)
          [] shift_typ = "never_shift_type" -> shift_base_type_transformer(f, info, w1)
          [] shift_typ = "none_shift_type" -> shift_none_type_transformer(f, info, w1)
          [] shift_typ = "any_shift_type" -> shift_any_type_transformer(f, info, w1)
          [] shift_typ = "one_of_shift_type" -> shift_one_of_type_transformer(f, info, w1)
          [] shift_typ = "all_of_single_shift_type" ->
                shift_all_of_single_type_transformer(f, info, w1)
          [] shift_typ = "all_of_many_shift_type" ->
                shift_all_of_many_type_transformer(f, info, w1)
          [] shift_typ = "all_of_pair_shift_type" ->
                shift_all_of_pair_type_transformer(f, info, w1)
          [] shift_typ = "forward_ref_shift_type" ->
                shift_forward_ref_type_transformer(f, info, w1)
          [] shift_typ = "shift_shift_type" -> shift_shift_type_transformer(f, info, w1)
          [] shift_typ = "shift_field_shift_type" ->
                shift_shift_field_type_transformer(f, info, w1)

\* --------------------------------------------------------- type validators

shift_missing_type_validator(f, info, w) ==
    IF f.val = Missing THEN Mismatch(f.val, f.typ, w) ELSE Ok(TrueV, f.val, f.typ, w)

shift_base_type_validator(f, info, w) ==
    IF ~isinstance(f.val, f.typ) THEN Mismatch(f.val, f.typ, w)
    ELSE Ok(TrueV, f.val, f.typ, w)

shift_none_type_validator(f, info, w) ==
    IF f.val # NoneV /\ f.val # Missing THEN Mismatch(f.val, f.typ, w)
    ELSE Ok(TrueV, f.val, f.typ, w)

shift_any_type_validator(f, info, w) ==
    IF f.val = Missing THEN Mismatch(f.val, f.typ, w) ELSE Ok(TrueV, f.val, f.typ, w)

shift_one_of_type_validator(f, info, w) ==
    IF get_args(f.typ) = <<>> THEN Ok(TrueV, f.val, f.typ, w)
    ELSE one_of_loop("validator", TRUE, f, f.val, 1, info, w)

\* The loop of the all_of_single and all_of_many validators over the
\* elements from index i on: every element must pass the validator of
\* typs[i]; nothing is assigned.
RECURSIVE all_of_validator_loop(_, _, _, _, _, _)
all_of_validator_loop(f, typs, objs, i, info, w) ==
    LET back == IF f.val.k \in {"list", "tuple"} THEN Val(f.val.k, 0, <<>>, objs)
                ELSE f.val IN
    IF i > Len(objs) \/ i > Len(typs) THEN Ok(TrueV, back, f.typ, w)
    ELSE IF ~HasName(typs[i]) THEN Raise("AttributeError", back, f.typ, w)
    ELSE LET r == TypeFunction("validator", TmpField(f, typs[i], objs[i]), info, w)
             back2 == IF f.val.k \in {"list", "tuple"}
                      THEN Val(f.val.k, 0, <<>>, [objs EXCEPT ![i] = r.obj])
                      ELSE f.val
         IN  IF r.st = "ShiftTypeMismatchError" \/ (r.st = "ok" /\ ~Truthy(r.res))
             THEN Mismatch(back2, f.typ, r.w)
             ELSE IF r.st # "ok" THEN Pass(r, back2, f.typ)
             ELSE all_of_validator_loop(f, typs, [objs EXCEPT ![i] = r.obj], i + 1,
                                        info, r.w)

shift_all_of_single_type_validator(f, info, w) ==
    LET args == get_args(f.typ) IN
    IF args = <<>> THEN Ok(TrueV, f.val, f.typ, w)
    ELSE IF Len(args) # 1 THEN Mismatch(f.val, f.typ, w)
    ELSE IF ~IsIterable(f.val) THEN Mismatch(f.val, f.typ, w)
    ELSE all_of_validator_loop(f, [i \in 1..PyLen(f.val) |-> args[1]], Iterate(f.val),
                               1, info, w)

shift_all_of_many_type_validator(f, info, w) ==
    LET args == get_args(f.typ) IN
    IF args = <<>> THEN Ok(TrueV, f.val, f.typ, w)
    ELSE IF ~IsIterable(f.val) THEN Mismatch(f.val, f.typ, w)
    ELSE IF PyLen(f.val) # Len(args) THEN Mismatch(f.val, f.typ, w)
    ELSE all_of_validator_loop(f, args, Iterate(f.val), 1, info, w)

\* The loop of the all_of_pair validator over the items from item i on
RECURSIVE all_of_pair_validator_loop(_, _, _, _, _)
all_of_pair_validator_loop(f, objs, i, info, w) ==
    LET args == get_args(f.typ) IN
    IF i > Len(objs) THEN Ok(TrueV, DictV(objs), f.typ, w)
    ELSE LET key == objs[i].e[1]
             val == objs[i].e[2]
             rk  == TypeFunction("validator", TmpField(f, args[1], key), info, w)
             rv  == IF Len(args) > 1
                    THEN TypeFunction("validator", TmpField(f, args[2], val), info, rk.w)
                    ELSE Ok(TrueV, val, f.typ, rk.w)
             objs2 == [objs EXCEPT ![i] = PairV(key, rv.obj)]
         IN  IF rk.st = "ShiftTypeMismatchError" \/ (rk.st = "ok" /\ ~Truthy(rk.res))
             THEN PairMismatch(args[1], DictV(objs), f.typ, rk.w)
             ELSE IF rk.st # "ok" THEN Pass(rk, DictV(objs), f.typ)
             ELSE IF rv.st = "ShiftTypeMismatchError" \/ (rv.st = "ok" /\ ~Truthy(rv.res))
             THEN PairMismatch(args[2], DictV(objs2), f.typ, rv.w)
             ELSE IF rv.st # "ok" THEN Pass(rv, DictV(objs2), f.typ)
             ELSE all_of_pair_validator_loop(f, objs2, i + 1, info, rv.w)

shift_all_of_pair_type_validator(f, info, w) ==
    IF get_args(f.typ) = <<>> THEN Ok(TrueV, f.val, f.typ, w)
    ELSE IF ~HasItems(f.val) THEN Mismatch(f.val, f.typ, w)
    ELSE all_of_pair_validator_loop(f, f.val.e, 1, info, w)

shift_forward_ref_type_validator(f, info, w) ==
    forward_ref_function("validator", f, info, w)

shift_shift_type_validator(f, info, w) ==
    IF IsShiftModel(f.val) THEN Ok(TrueV, f.val, f.typ, w)
    ELSE IF f.val.k = "dict" THEN Ok(TrueV, f.val, f.typ, w)
    ELSE Mismatch(f.val, f.typ, w)

\* shift_shift_field_type_validator: default_skips returns True whatever
\* the value is; otherwise ShiftField.validate checks the constraints
shift_shift_field_type_validator(f, info, w) ==
    IF ~IsShiftField(f.default) THEN Mismatch(f.val, f.typ, w)
    ELSE IF w.fields[f.default.s].default_skips THEN Ok(TrueV, f.val, f.typ, w)
    ELSE ShiftField_validate(w.fields[f.default.s], f, info, w)

\* shift_type_validator: the registry lookup, then the validator of the
\* ShiftType through shift_function_wrapper
shift_type_validator(f, info, w) ==
    LET shift_typ == get_shift_type(f.typ, w.types)
        fn == <<shift_typ, "validator">>
        w1 == shift_function_cached(fn, w)
    IN  CASE shift_typ = "None" -> Raise("UnknownShiftTypeError", f.val, f.typ, w)
          [] shift_typ \in {"TypeError", "KeyError"} -> Raise(shift_typ, f.val, f.typ, w)
          [] shift_typ = "missing_shift_type" -> shift_missing_type_validator(f, info, w1)
          [] shift_typ = "base_shift_type" -> shift_base_type_validator(f, info, w1)
          [] shift_typ = "never_shift_type" -> shift_function_wrapper(f, info, <<"never">>, w)
          [] shift_typ = "none_shift_type" -> shift_none_type_validator(f, info, w1)
          [] shift_typ = "any_shift_type" -> shift_any_type_validator(f, info, w1)
          [] shift_typ = "one_of_shift_type" -> shift_one_of_type_validator(f, info, w1)
          [] shift_typ = "all_of_single_shift_type" ->
                shift_all_of_single_type_validator(f, info, w1)
          [] shift_typ = "all_of_many_shift_type" ->
                shift_all_of_many_type_validator(f, info, w1)
          [] shift_typ = "all_of_pair_shift_type" ->
                shift_all_of_pair_type_validator(f, info, w1)
          [] shift_typ = "forward_ref_shift_type" ->
                shift_forward_ref_type_validator(f, info, w1)
          [] shift_typ = "shift_shift_type" -> shift_shift_type_validator(f, info, w1)
          [] shift_typ = "shift_field_shift_type" ->
                shift_shift_field_type_validator(f, info, w1)

\* ------------------------------------------------------------ type setters

shift_missing_type_setter(f, info, w) ==
    IF f.val = Missing THEN Mismatch(f.val, f.typ, w) ELSE Ok(f.val, f.val, f.typ, w)

shift_base_type_setter(f, info, w) ==
    IF ~isinstance(f.val, f.typ) THEN Mismatch(f.val, f.typ, w)
    ELSE Ok(f.val, f.val, f.typ, w)

shift_none_type_setter(f, info, w) ==
    IF f.val # NoneV /\ f.val # Missing THEN Mismatch(f.val, f.typ, w)
    ELSE Ok(NoneV, f.val, f.typ, w)

shift_any_type_setter(f, info, w) ==
    IF f.val = Missing THEN Mismatch(f.val, f.typ, w) ELSE Ok(f.val, f.val, f.typ, w)

\* arg_typ = arg if isinstance(arg, type) else type(arg)
shift_one_of_type_setter(f, info, w) ==
    IF get_args(f.typ) = <<>> THEN Ok(f.val, f.val, f.typ, w)
    ELSE one_of_loop("setter", FALSE, f, f.val, 1, info, w)

shift_all_of_single_type_setter(f, info, w) ==
    LET args == get_args(f.typ) IN
    IF args = <<>> THEN Ok(f.val, f.val, f.typ, w)
    ELSE IF Len(args) # 1 THEN Mismatch(f.val, f.typ, w)
    ELSE IF ~IsIterable(f.val) THEN Mismatch(f.val, f.typ, w)
    ELSE all_of_frame("setter", f, [i \in 1..PyLen(f.val) |-> args[1]], info, w)

shift_all_of_many_type_setter(f, info, w) ==
    LET args == get_args(f.typ) IN
    IF args = <<>> THEN Ok(f.val, f.val, f.typ, w)
    ELSE IF ~IsIterable(f.val) THEN Mismatch(f.val, f.typ, w)
    ELSE IF PyLen(f.val) # Len(args) THEN Mismatch(f.val, f.typ, w)
    ELSE all_of_frame("setter", f, args, info, w)

shift_all_of_pair_type_setter(f, info, w) ==
    IF get_args(f.typ) = <<>> THEN Ok(f.val, f.val, f.typ, w)
    ELSE IF ~HasItems(f.val) THEN Mismatch(f.val, f.typ, w)
    ELSE all_of_pair_loop("setter", f, <<>>, f.val.e, 1, info, w)

shift_forward_ref_type_setter(f, info, w) ==
    forward_ref_function("setter", f, info, w)

\* field_info.typ(**field_info.val): keywords must be strings
\* the nested __init__ returned or raised: r
shift_shift_type_set(f, r) == Out(r.st, r.res, r.obj, f.typ, r.w, r.err)

shift_shift_type_setter(f, info, w) ==
    IF IsShiftModel(f.val) THEN Ok(f.val, f.val, f.typ, w)
    ELSE IF f.val.k = "dict" /\ IsClass(f.typ)
    THEN IF \E j \in 1..Len(f.val.e) : f.val.e[j].e[1].k # "str"
         THEN Raise("TypeError", f.val, f.typ, w)
         ELSE shift_shift_type_set(f, ShiftModel_init(f.typ.c, f.val, w))
    ELSE Mismatch(f.val, f.typ, w)

\* shift_shift_field_type_setter: default_skips returns the value as it is;
\* otherwise the value goes through the type setter of default.type
shift_shift_field_type_setter(f, info, w) ==
    IF ~IsShiftField(f.default) THEN Mismatch(f.val, f.typ, w)
    ELSE IF w.fields[f.default.s].default_skips THEN Ok(f.val, f.val, f.typ, w)
    ELSE shift_field_typed(f,
             TypeFunction("setter", TmpField(f, w.fields[f.default.s].type, f.val),
                          info, w))

\* shift_type_setter: the registry lookup, then the setter of the ShiftType
\* through shift_function_wrapper
shift_type_setter(f, info, w) ==
    LET shift_typ == get_shift_type(f.typ, w.types)
        fn == <<shift_typ, "setter">>
        w1 == shift_function_cached(fn, w)
    IN  CASE shift_typ = "None" -> Raise("UnknownShiftTypeError", f.val, f.typ, w)
          [] shift_typ \in {"TypeError", "KeyError"} -> Raise(shift_typ, f.val, f.typ, w)
          [] shift_typ = "missing_shift_type" -> shift_missing_type_setter(f, info, w1)
          [] shift_typ = "base_shift_type" -> shift_base_type_setter(f, info, w1)
          [] shift_typ = "never_shift_type" -> shift_base_type_setter(f, info, w1)
          [] shift_typ = "none_shift_type" -> shift_none_type_setter(f, info, w1)
          [] shift_typ = "any_shift_type" -> shift_any_type_setter(f, info, w1)
          [] shift_typ = "one_of_shift_type" -> shift_one_of_type_setter(f, info, w1)
          [] shift_typ = "all_of_single_shift_type" ->
                shift_all_of_single_type_setter(f, info, w1)
          [] shift_typ = "all_of_many_shift_type" ->
                shift_all_of_many_type_setter(f, info, w1)
          [] shift_typ = "all_of_pair_shift_type" ->
                shift_all_of_pair_type_setter(f, info, w1)
          [] shift_typ = "forward_ref_shift_type" ->
                shift_forward_ref_type_setter(f, info, w1)
          [] shift_typ = "shift_shift_type" -> shift_shift_type_setter(f, info, w1)
          [] shift_typ = "shift_field_shift_type" ->
                shift_shift_field_type_setter(f, info, w1)

\* ------------------------------------------- type reprs and serializers

\* The loop of the all_of_single and all_of_many reprs and serializers from
\* index i on: what the type function returns for element i is assigned to
\* field_info.val[i], the object the field holds.  A list takes the
\* assignment; a tuple or a str raises TypeError; a dict gets the key i,
\* and a new key ends the iteration with RuntimeError.
RECURSIVE all_of_assign_loop(_, _, _, _, _, _, _)
all_of_assign_loop(phase, f, typs, cur, i, info, w) ==
    LET items == Iterate(cur) IN
    IF i > Len(items) \/ i > Len(typs) THEN Ok(cur, cur, f.typ, w)
    ELSE IF ~HasName(typs[i]) THEN Raise("AttributeError", cur, f.typ, w)
    ELSE LET r == TypeFunction(phase, TmpField(f, typs[i], items[i]), info, w)
             touched == IF cur.k \in {"list", "tuple"}
                        THEN [cur EXCEPT !.e[i] = r.obj] ELSE cur
             grown == DictV(DictSet(cur.e, IntV(i - 1), r.res))
         IN  IF r.st = "ShiftTypeMismatchError" THEN Mismatch(touched, f.typ, r.w)
             ELSE IF r.st # "ok" THEN Pass(r, touched, f.typ)
             ELSE IF cur.k = "list"
                  THEN all_of_assign_loop(phase, f, typs, [cur EXCEPT !.e[i] = r.res],
                                          i + 1, info, r.w)
             ELSE IF cur.k = "dict"
                  THEN IF Len(grown.e) = Len(cur.e)
                       THEN all_of_assign_loop(phase, f, typs, grown, i + 1, info, r.w)
                       ELSE Raise("RuntimeError", grown, f.typ, r.w)
             ELSE Raise("TypeError", touched, f.typ, r.w)

\* return repr(...) of what a loop returned
ReprOf(r) == IF r.st = "ok" THEN Ok(ReprV(r.res), r.obj, r.typ, r.w) ELSE r

shift_missing_type_repr(f, info, w) ==
    IF f.val = Missing THEN Mismatch(f.val, f.typ, w)
    ELSE Ok(ReprV(f.val), f.val, f.typ, w)

shift_base_type_repr(f, info, w) ==
    IF ~isinstance(f.val, f.typ) THEN Mismatch(f.val, f.typ, w)
    ELSE Ok(ReprV(f.val), f.val, f.typ, w)

shift_none_type_repr(f, info, w) ==
    IF f.val # NoneV /\ f.val # Missing THEN Mismatch(f.val, f.typ, w)
    ELSE Ok(ReprV(f.val), f.val, f.typ, w)

shift_any_type_repr(f, info, w) ==
    IF f.val = Missing THEN Mismatch(f.val, f.typ, w)
    ELSE Ok(ReprV(f.val), f.val, f.typ, w)

shift_one_of_type_repr(f, info, w) ==
    IF get_args(f.typ) = <<>> THEN Ok(ReprV(f.val), f.val, f.typ, w)
    ELSE one_of_loop("repr", TRUE, f, f.val, 1, info, w)

shift_all_of_single_type_repr(f, info, w) ==
    LET args == get_args(f.typ) IN
    IF args = <<>> THEN Ok(ReprV(f.val), f.val, f.typ, w)
    ELSE IF Len(args) # 1 THEN Mismatch(f.val, f.typ, w)
    ELSE IF ~IsIterable(f.val) THEN Mismatch(f.val, f.typ, w)
    ELSE ReprOf(all_of_assign_loop("repr", f, [i \in 1..PyLen(f.val) |-> args[1]],
                                   f.val, 1, info, w))

shift_all_of_many_type_repr(f, info, w) ==
    LET args == get_args(f.typ) IN
    IF args = <<>> THEN Ok(ReprV(f.val), f.val, f.typ, w)
    ELSE IF ~IsIterable(f.val) THEN Mismatch(f.val, f.typ, w)
    ELSE IF PyLen(f.val) # Len(args) THEN Mismatch(f.val, f.typ, w)
    ELSE ReprOf(all_of_assign_loop("repr", f, args, f.val, 1, info, w))

shift_all_of_pair_type_repr(f, info, w) ==
    IF get_args(f.typ) = <<>> THEN Ok(ReprV(f.val), f.val, f.typ, w)
    ELSE IF ~HasItems(f.val) THEN Mismatch(f.val, f.typ, w)
    ELSE ReprOf(all_of_pair_loop("repr", f, <<>>, f.val.e, 1, info, w))

shift_forward_ref_type_repr(f, info, w) ==
    forward_ref_function("repr", f, info, w)

\* repr(field_info.val) of a record instance is its __repr__; an exception
\* of it is turned into a ShiftTypeMismatchError
\* the nested __repr__ or serialize() returned or raised: r
shift_shift_type_shown(f, r) ==
    IF r.st = "ok" THEN Ok(r.res, r.obj, f.typ, r.w)
    ELSE Mismatch(r.obj, f.typ, r.w)

shift_shift_type_repr(f, info, w) ==
    \* repr of a class object is a string
    IF IsShiftModel(f.val) /\ f.val.k = "type" THEN Ok(ReprV(f.val), f.val, f.typ, w)
    ELSE IF IsShiftModel(f.val) THEN shift_shift_type_shown(f, ShiftModel_repr(f.val, w))
    ELSE Mismatch(f.val, f.typ, w)

\* shift_shift_field_type_repr: the type repr of default.type
shift_shift_field_type_repr(f, info, w) ==
    IF ~IsShiftField(f.default) THEN Mismatch(f.val, f.typ, w)
    ELSE shift_field_typed(f,
             TypeFunction("repr", TmpField(f, w.fields[f.default.s].type, f.val),
                          info, w))

\* shift_type_repr: the registry lookup, then the repr of the ShiftType
\* through shift_function_wrapper
shift_type_repr(f, info, w) ==
    LET shift_typ == get_shift_type(f.typ, w.types)
        fn == <<shift_typ, "repr">>
        w1 == shift_function_cached(fn, w)
    IN  CASE shift_typ = "None" -> Raise("UnknownShiftTypeError", f.val, f.typ, w)
          [] shift_typ \in {"TypeError", "KeyError"} -> Raise(shift_typ, f.val, f.typ, w)
          [] shift_typ = "missing_shift_type" -> shift_missing_type_repr(f, info, w1)
          [] shift_typ = "base_shift_type" -> shift_base_type_repr(f, info, w1)
          [] shift_typ = "never_shift_type" -> shift_base_type_repr(f, info, w1)
          [] shift_typ = "none_shift_type" -> shift_none_type_repr(f, info, w1)
          [] shift_typ = "any_shift_type" -> shift_any_type_repr(f, info, w1)
          [] shift_typ = "one_of_shift_type" -> shift_one_of_type_repr(f, info, w1)
          [] shift_typ = "all_of_single_shift_type" ->
                shift_all_of_single_type_repr(f, info, w1)
          [] shift_typ = "all_of_many_shift_type" ->
                shift_all_of_many_type_repr(f, info, w1)
          [] shift_typ = "all_of_pair_shift_type" ->
                shift_all_of_pair_type_repr(f, info, w1)
          [] shift_typ = "forward_ref_shift_type" ->
                shift_forward_ref_type_repr(f, info, w1)
          [] shift_typ = "shift_shift_type" -> shift_shift_type_repr(f, info, w1)
          [] shift_typ = "shift_field_shift_type" ->
                shift_shift_field_type_repr(f, info, w1)

shift_missing_type_serializer(f, info, w) ==
    IF f.val = Missing THEN Mismatch(f.val, f.typ, w) ELSE Ok(f.val, f.val, f.typ, w)

shift_base_type_serializer(f, info, w) ==
    IF ~isinstance(f.val, f.typ) THEN Mismatch(f.val, f.typ, w)
    ELSE Ok(f.val, f.val, f.typ, w)

shift_none_type_serializer(f, info, w) ==
    IF f.val # NoneV /\ f.val # Missing THEN Mismatch(f.val, f.typ, w)
    ELSE Ok(f.val, f.val, f.typ, w)

shift_any_type_serializer(f, info, w) ==
    IF f.val = Missing THEN Mismatch(f.val, f.typ, w) ELSE Ok(f.val, f.val, f.typ, w)

shift_one_of_type_serializer(f, info, w) ==
    IF get_args(f.typ) = <<>> THEN Ok(f.val, f.val, f.typ, w)
    ELSE one_of_loop("serializer", TRUE, f, f.val, 1, info, w)

shift_all_of_single_type_serializer(f, info, w) ==
    LET args == get_args(f.typ) IN
    IF args = <<>> THEN Ok(f.val, f.val, f.typ, w)
    ELSE IF Len(args) # 1 THEN Mismatch(f.val, f.typ, w)
    ELSE IF ~IsIterable(f.val) THEN Mismatch(f.val, f.typ, w)
    ELSE all_of_assign_loop("serializer", f, [i \in 1..PyLen(f.val) |-> args[1]],
                            f.val, 1, info, w)

shift_all_of_many_type_serializer(f, info, w) ==
    LET args == get_args(f.typ) IN
    IF args = <<>> THEN Ok(f.val, f.val, f.typ, w)
    ELSE IF ~IsIterable(f.val) THEN Mismatch(f.val, f.typ, w)
    ELSE IF PyLen(f.val) # Len(args) THEN Mismatch(f.val, f.typ, w)
    ELSE all_of_assign_loop("serializer", f, args, f.val, 1, info, w)

shift_all_of_pair_type_serializer(f, info, w) ==
    IF get_args(f.typ) = <<>> THEN Ok(f.val, f.val, f.typ, w)
    ELSE IF ~HasItems(f.val) THEN Mismatch(f.val, f.typ, w)
    ELSE all_of_pair_loop("serializer", f, <<>>, f.val.e, 1, info, w)

\* on a cache hit the serializer hands the field to shift_type_repr
shift_forward_ref_type_serializer(f, info, w) ==
    IF TypeKey(f.typ) \in DOMAIN w.fwd
    THEN TypeFunction("repr", [f EXCEPT !.typ = w.fwd[TypeKey(f.typ)]], info, w)
    ELSE forward_ref_function("serializer", f, info, w)

\* serialize(field_info.val) of a record instance; an exception of it is
\* turned into a ShiftTypeMismatchError
shift_shift_type_serializer(f, info, w) ==
    \* serialize() of a class object lacks self: TypeError
    IF IsShiftModel(f.val) /\ f.val.k = "type" THEN Mismatch(f.val, f.typ, w)
    ELSE IF IsShiftModel(f.val) THEN shift_shift_type_shown(f, ShiftModel_serialize(f.val, w))
    ELSE Mismatch(f.val, f.typ, w)

\* shift_shift_field_type_serializer: the type serializer of default.type
shift_shift_field_type_serializer(f, info, w) ==
    IF ~IsShiftField(f.default) THEN Mismatch(f.val, f.typ, w)
    ELSE shift_field_typed(f,
             TypeFunction("serializer",
                          TmpField(f, w.fields[f.default.s].type, f.val), info, w))

\* shift_type_serializer: the registry lookup, then the serializer of the
\* ShiftType through shift_function_wrapper
shift_type_serializer(f, info, w) ==
    LET shift_typ == get_shift_type(f.typ, w.types)
        fn == <<shift_typ, "serializer">>
        w1 == shift_function_cached(fn, w)
    IN  CASE shift_typ = "None" -> Raise("UnknownShiftTypeError", f.val, f.typ, w)
          [] shift_typ \in {"TypeError", "KeyError"} -> Raise(shift_typ, f.val, f.typ, w)
          [] shift_typ = "missing_shift_type" -> shift_missing_type_serializer(f, info, w1)
          [] shift_typ = "base_shift_type" -> shift_base_type_serializer(f, info, w1)
          [] shift_typ = "never_shift_type" -> shift_base_type_serializer(f, info, w1)
          [] shift_typ = "none_shift_type" -> shift_none_type_serializer(f, info, w1)
          [] shift_typ = "any_shift_type" -> shift_any_type_serializer(f, info, w1)
          [] shift_typ = "one_of_shift_type" -> shift_one_of_type_serializer(f, info, w1)
          [] shift_typ = "all_of_single_shift_type" ->
                shift_all_of_single_type_serializer(f, info, w1)
          [] shift_typ = "all_of_many_shift_type" ->
                shift_all_of_many_type_serializer(f, info, w1)
          [] shift_typ = "all_of_pair_shift_type" ->
                shift_all_of_pair_type_serializer(f, info, w1)
          [] shift_typ = "forward_ref_shift_type" ->
                shift_forward_ref_type_serializer(f, info, w1)
          [] shift_typ = "shift_shift_type" -> shift_shift_type_serializer(f, info, w1)
          [] shift_typ = "shift_field_shift_type" ->
                shift_shift_field_type_serializer(f, info, w1)


\* ------------------------------------------------------ objects and dicts

\* a == b: numbers compare by value (True == 1), dicts item by item in any
\* order, other containers element-wise
RECURSIVE PyEq(_, _)
PyEq(a, b) ==
    IF a.k \in {"int", "bool"} /\ b.k \in {"int", "bool"} THEN a.n = b.n
    ELSE IF a.k = "dict" /\ b.k = "dict"
    THEN /\ Len(a.e) = Len(b.e)
         /\ \A i \in 1..Len(a.e) : \E j \in 1..Len(b.e) : PyEq(a.e[i], b.e[j])
    ELSE /\ a.k = b.k /\ a.n = b.n /\ a.s = b.s
         /\ Len(a.e) = Len(b.e)
         /\ \A i \in 1..Len(a.e) : PyEq(a.e[i], b.e[i])

\* name in data, data[name] for the keyword arguments or any dict with str keys
DictHas(d, name) == \E j \in 1..Len(d.e) : d.e[j].e[1] = StrV(name)
DictGet(d, name) == d.e[CHOOSE j \in 1..Len(d.e) : d.e[j].e[1] = StrV(name)].e[2]

\* hasattr / getattr / setattr on the attributes of an instance or the
\* entries of a class __dict__ (a sequence of attr objects)
HasEntry(attrs, name) == \E j \in 1..Len(attrs) : attrs[j].s = name
GetEntry(attrs, name) == attrs[CHOOSE j \in 1..Len(attrs) : attrs[j].s = name].e[1]
SetEntry(attrs, name, val) ==
    IF HasEntry(attrs, name)
    THEN [j \in 1..Len(attrs) |-> IF attrs[j].s = name THEN AttrV(name, val) ELSE attrs[j]]
    ELSE Append(attrs, AttrV(name, val))

\* inspect.ismethod(val) or inspect.isfunction(val) or callable(val)
IsCallable(val) == val.k \in {"function", "type"}

\* ------------------------------------------------------------ class bodies

\* A class statement: its name, its annotations in order ([name, typ]), its
\* __dict__ in order (attr objects: defaults and functions), the
\* __shift_config__ it assigns (set says whether it does) and the
\* __<flag>__ attributes it assigns ([flag, on]).
ClassBody(name, annotations, dict, config, flags) ==
    [name |-> name, annotations |-> annotations, dict |-> dict, config |-> config,
     flags |-> flags]

Annotation(name, typ) == [name |-> name, typ |-> typ]

\* getattr(cls, name, Missing)
ClassAttr(cls, name) ==
    IF HasEntry(cls.dict, name) THEN GetEntry(cls.dict, name) ELSE Missing

\* get_shift_config: the __<flag>__ attributes build a fresh ShiftConfig when
\* there is any, else __shift_config__, else DEFAULT_SHIFT_CONFIG; a copy
get_shift_config(cls, w) ==
    LET FlagOr(flag, dflt) ==
            IF \E j \in 1..Len(cls.flags) : cls.flags[j].flag = flag
            THEN cls.flags[CHOOSE j \in 1..Len(cls.flags) : cls.flags[j].flag = flag].on
            ELSE dflt
    IN  IF cls.flags # <<>>
        THEN [do_processing |-> FlagOr("do_processing", ShiftConfig.do_processing),
              fail_fast |-> FlagOr("fail_fast", ShiftConfig.fail_fast),
              try_coerce_types |-> FlagOr("try_coerce_types", ShiftConfig.try_coerce_types),
              allow_private_field_setting |->
                  FlagOr("allow_private_field_setting",
                         ShiftConfig.allow_private_field_setting),
              include_default_fields_in_serialization |->
                  FlagOr("include_default_fields_in_serialization",
                         ShiftConfig.include_default_fields_in_serialization),
              include_private_fields_in_serialization |->
                  FlagOr("include_private_fields_in_serialization",
                         ShiftConfig.include_private_fields_in_serialization)]
        ELSE IF cls.config.set THEN cls.config.cfg
        ELSE w.dflt

\* typing.get_type_hints evaluates every ForwardRef in the module of the
\* class and in builtins, and raises NameError when a name is in neither
RECURSIVE CanEvaluate(_)
CanEvaluate(typ) ==
    IF ~HasName(typ) THEN typ.c \in DOMAIN ModuleTypes \union DOMAIN BuiltinTypes
    ELSE \A i \in 1..Len(typ.a) : CanEvaluate(typ.a[i])

RECURSIVE Evaluate(_)
Evaluate(typ) ==
    IF ~HasName(typ) THEN (ModuleTypes @@ BuiltinTypes)[typ.c]
    ELSE [typ EXCEPT !.a = [i \in 1..Len(typ.a) |-> Evaluate(typ.a[i])]]

\* annotated in get_fields: get_type_hints(cls), or on NameError the
\* annotations as written
get_type_hints(cls) ==
    IF \A j \in 1..Len(cls.annotations) : CanEvaluate(cls.annotations[j].typ)
    THEN [j \in 1..Len(cls.annotations) |->
            Annotation(cls.annotations[j].name, Evaluate(cls.annotations[j].typ))]
    ELSE cls.annotations

\* get_fields: the annotated fields in annotation order, then the other
\* non-callable class attributes; raises for a private field that data sets
get_fields(cls, data, shift_config) ==
    LET annotated == SelectSeq(get_type_hints(cls), LAMBDA an : ~IsMagicName(an.name))
        IsAnnotated(name) == \E j \in 1..Len(cls.annotations) : cls.annotations[j].name = name
        others == SelectSeq(cls.dict, LAMBDA at :
                      /\ ~IsAnnotated(at.s) /\ ~IsMagicName(at.s)
                      /\ ~IsCallable(at.e[1]))
        ValOf(name) == IF DictHas(data, name) THEN DictGet(data, name) ELSE Missing
        Refused(name) ==
            /\ IsPrivateName(name) /\ ValOf(name) # Missing
            /\ ~shift_config.allow_private_field_setting
        Implicit(name) == IsPrivateName(name) /\ ClassAttr(cls, name) = Missing
        one(an) == ShiftFieldInfo(an.name,
                       IF Implicit(an.name) THEN OptionalOf(an.typ)
                       ELSE IF IsShiftField(ClassAttr(cls, an.name)) THEN ShiftFieldT
                       ELSE an.typ,
                       ValOf(an.name),
                       IF Implicit(an.name) THEN NoneV ELSE ClassAttr(cls, an.name))
        other(at) == ShiftFieldInfo(at.s,
                         IF IsShiftField(at.e[1]) THEN ShiftFieldT ELSE MissingT,
                         ValOf(at.s), at.e[1])
    IN  IF \/ \E j \in 1..Len(annotated) : Refused(annotated[j].name)
           \/ \E j \in 1..Len(others) : Refused(others[j].s)
        THEN [st |-> "ShiftFieldError", fields |-> <<>>,
              err |-> Err("ShiftFieldError", cls.name, "", <<>>)]
        ELSE [st |-> "ok",
              fields |-> [j \in 1..Len(annotated) |-> one(annotated[j])]
                         \o [j \in 1..Len(others) |-> other(others[j])],
              err |-> NoErr]

\* a field of get_updated_fields that takes data.get(name, Missing) and
\* leaves the cached default behind
updated_field_undefaulted(field, data) ==
    ShiftFieldInfo(field.name, field.typ,
                   IF DictHas(data, field.name) THEN DictGet(data, field.name)
                   ELSE Missing,
                   Missing)

\* the new ShiftFieldInfo get_updated_fields builds from a cached one: val
\* is data[name] or else the default; a ShiftField there becomes the default
\* and leaves val Missing
updated_field(field, data) ==
    LET new_val == IF DictHas(data, field.name) THEN DictGet(data, field.name)
                   ELSE field.default
    IN  IF IsShiftField(new_val)
        THEN ShiftFieldInfo(field.name, field.typ, Missing, new_val)
        ELSE ShiftFieldInfo(field.name, field.typ, new_val, field.default)

\* get_updated_fields without the check of the private names
get_updated_fields_unchecked(cls_name, fields, data, shift_config) ==
    [st |-> "ok",
     fields |-> [j \in 1..Len(fields) |->
         updated_field(fields[j], data)],
     err |-> NoErr]

\* get_updated_fields: the cached fields with the values of this call
get_updated_fields(cls_name, fields, data, shift_config) ==
    IF \E j \in 1..Len(fields) :
           /\ IsPrivateName(fields[j].name) /\ DictHas(data, fields[j].name)
           /\ ~shift_config.allow_private_field_setting
    THEN [st |-> "ShiftFieldError", fields |-> <<>>,
          err |-> Err("ShiftFieldError", cls_name, "", <<>>)]
    ELSE [st |-> "ok",
          fields |-> [j \in 1..Len(fields) |->
              updated_field(fields[j], data)],
          err |-> NoErr]

\* get_val_fields: the fields the instance has an attribute for (its own or
\* the class's), with the attribute's current value
get_val_fields(cls, instance, fields) ==
    LET Has(name) == HasEntry(instance.e, name) \/ HasEntry(cls.dict, name)
        Get(name) == IF HasEntry(instance.e, name) THEN GetEntry(instance.e, name)
                     ELSE GetEntry(cls.dict, name)
        kept == SelectSeq(fields, LAMBDA fl : Has(fl.name))
    IN  [j \in 1..Len(kept) |->
            ShiftFieldInfo(kept[j].name, kept[j].typ, Get(kept[j].name), kept[j].default)]

\* ------------------------------------------------- the classes under test

\* the largest number of elements of a list passed to a list[int] field
MaxLen == 2

\* B(v=i)
InstB(i) == ModelV(<<"B">>, <<AttrV(<<"v">>, IntV(i))>>)
Kw(name, val) == PairV(StrV(name), val)

\* The subclasses of ShiftModel the model instantiates, each declaring the
\* __shift_config__ `config`.  They are local classes, so get_type_hints
\* raises NameError on a reference to one of them by name and get_fields
\* falls back to the raw annotations.
\*   B: v: int
\*   P: a: int;  b: str = "x";  c: Optional[int] = 5
\*   R: _p: int = 1;  q: int = 2;  _s: int
\*   U: u: Union[int, str]
\*   W: w: Union[list[int], str]
\*   T: t: tuple[str, int]
\*   L: xs: list[int]
\*   C: bs: list[B]
\*   D: d: dict[str, int]
\*   N: b: B;  c: B
\*   M: m: U
\*   F: a: ForwardRef("int");  b: ForwardRef("int");  c: ForwardRef("B")
\*   H: a: int;  b: int;  keep is a skipping pre-transformer of a
\*   A: val: int = ShiftField(default=5, ge=10, default_skips=True)
\*   G: val: int = ShiftField(default=5, ge=10)
\*   V: val = ShiftField(type=int, validator=accept, validator_skips=True)
\*   S: nest: ForwardRef("S")
\*   K: a: int;  b: int;  the transformers skip_a, post_a, pre_b, post_b
\*   Q: a: int;  b: int;  c: int;  the transformer keep_a and the validators
\*      vpost_a, vpre_b, vpost_b, vskip_c, vpost_c
\*   E: a: int = 1;  _p: int = 2;  d: int = 5;  the setter set_a, the repr
\*      function show and the serializer dump
\*   J: a: int;  the transformer wide
\*   Y: y: [int], a list object where a type is expected
\*   Z: val: Any = ShiftField(ge=2, eq=4, le=5, gt=2, ne=3, lt=5, pattern="4",
\*      check=even, validator=small)
\*   O: xs: list[int] = ShiftField(min_len=0, max_len=2)
\*   I: xs: list;  t: tuple;  d: dict;  o: Optional[int]
Classes(config) ==
    LET body(name, annotations, dict) == ClassBody(name, annotations, dict, config, <<>>) IN
    (<<"B">> :> body(<<"B">>, <<Annotation(<<"v">>, IntT)>>, <<>>)) @@
    (<<"P">> :> body(<<"P">>,
        <<Annotation(<<"a">>, IntT), Annotation(<<"b">>, StrT),
          Annotation(<<"c">>, OptionalOf(IntT))>>,
        <<AttrV(<<"b">>, StrV(<<"x">>)), AttrV(<<"c">>, IntV(5))>>)) @@
    (<<"R">> :> body(<<"R">>,
        <<Annotation(<<"_", "p">>, IntT), Annotation(<<"q">>, IntT),
          Annotation(<<"_", "s">>, IntT)>>,
        <<AttrV(<<"_", "p">>, IntV(1)), AttrV(<<"q">>, IntV(2))>>)) @@
    (<<"U">> :> body(<<"U">>, <<Annotation(<<"u">>, UnionOf(<<IntT, StrT>>))>>, <<>>)) @@
    (<<"W">> :> body(<<"W">>,
        <<Annotation(<<"w">>, UnionOf(<<ListOf(IntT), StrT>>))>>, <<>>)) @@
    (<<"T">> :> body(<<"T">>, <<Annotation(<<"t">>, TupleOf(<<StrT, IntT>>))>>, <<>>)) @@
    (<<"L">> :> body(<<"L">>, <<Annotation(<<"xs">>, ListOf(IntT))>>, <<>>)) @@
    (<<"C">> :> body(<<"C">>, <<Annotation(<<"bs">>, ListOf(ModelT(<<"B">>)))>>, <<>>)) @@
    (<<"D">> :> body(<<"D">>, <<Annotation(<<"d">>, DictOf(StrT, IntT))>>, <<>>)) @@
    (<<"N">> :> body(<<"N">>,
        <<Annotation(<<"b">>, ModelT(<<"B">>)), Annotation(<<"c">>, ModelT(<<"B">>))>>,
        <<>>)) @@
    (<<"M">> :> body(<<"M">>, <<Annotation(<<"m">>, ModelT(<<"U">>))>>, <<>>)) @@
    (<<"F">> :> body(<<"F">>,
        <<Annotation(<<"a">>, ForwardRefT(<<"int">>)),
          Annotation(<<"b">>, ForwardRefT(<<"int">>)),
          Annotation(<<"c">>, ForwardRefT(<<"B">>))>>,
        <<>>)) @@
    (<<"H">> :> body(<<"H">>,
        <<Annotation(<<"a">>, IntT), Annotation(<<"b">>, IntT)>>,
        <<AttrV(<<"keep">>, FunctionV(<<"keep">>))>>)) @@
    (<<"A">> :> body(<<"A">>, <<Annotation(<<"val">>, IntT)>>,
        <<AttrV(<<"val">>, ShiftFieldV(<<"A", "val">>))>>)) @@
    (<<"G">> :> body(<<"G">>, <<Annotation(<<"val">>, IntT)>>,
        <<AttrV(<<"val">>, ShiftFieldV(<<"G", "val">>))>>)) @@
    (<<"V">> :> body(<<"V">>, <<>>,
        <<AttrV(<<"val">>, ShiftFieldV(<<"V", "val">>))>>)) @@
    (<<"S">> :> body(<<"S">>, <<Annotation(<<"nest">>, ForwardRefT(<<"S">>))>>, <<>>)) @@
    (<<"K">> :> body(<<"K">>,
        <<Annotation(<<"a">>, IntT), Annotation(<<"b">>, IntT)>>,
        <<AttrV(<<"skip_a">>, FunctionV(<<"skip_a">>)),
          AttrV(<<"post_a">>, FunctionV(<<"post_a">>)),
          AttrV(<<"pre_b">>, FunctionV(<<"pre_b">>)),
          AttrV(<<"post_b">>, FunctionV(<<"post_b">>))>>)) @@
    (<<"Q">> :> body(<<"Q">>,
        <<Annotation(<<"a">>, IntT), Annotation(<<"b">>, IntT), Annotation(<<"c">>, IntT)>>,
        <<AttrV(<<"keep_a">>, FunctionV(<<"keep_a">>)),
          AttrV(<<"vpost_a">>, FunctionV(<<"vpost_a">>)),
          AttrV(<<"vpre_b">>, FunctionV(<<"vpre_b">>)),
          AttrV(<<"vpost_b">>, FunctionV(<<"vpost_b">>)),
          AttrV(<<"vskip_c">>, FunctionV(<<"vskip_c">>)),
          AttrV(<<"vpost_c">>, FunctionV(<<"vpost_c">>))>>)) @@
    (<<"E">> :> body(<<"E">>,
        <<Annotation(<<"a">>, IntT), Annotation(<<"_", "p">>, IntT),
          Annotation(<<"d">>, IntT)>>,
        <<AttrV(<<"a">>, IntV(1)), AttrV(<<"_", "p">>, IntV(2)), AttrV(<<"d">>, IntV(5)),
          AttrV(<<"set_a">>, FunctionV(<<"set_a">>)),
          AttrV(<<"show">>, FunctionV(<<"show">>)),
          AttrV(<<"dump">>, FunctionV(<<"dump">>))>>)) @@
    (<<"J">> :> body(<<"J">>, <<Annotation(<<"a">>, IntT)>>,
        <<AttrV(<<"wide">>, FunctionV(<<"wide">>))>>)) @@
    (<<"Y">> :> body(<<"Y">>, <<Annotation(<<"y">>, ObjectT("list"))>>, <<>>)) @@
    (<<"Z">> :> body(<<"Z">>, <<Annotation(<<"val">>, AnyT)>>,
        <<AttrV(<<"val">>, ShiftFieldV(<<"Z", "val">>))>>)) @@
    (<<"O">> :> body(<<"O">>, <<Annotation(<<"xs">>, ListOf(IntT))>>,
        <<AttrV(<<"xs">>, ShiftFieldV(<<"O", "xs">>))>>)) @@
    (<<"I">> :> body(<<"I">>,
        <<Annotation(<<"xs">>, Plain("list")), Annotation(<<"t">>, Plain("tuple")),
          Annotation(<<"d">>, Plain("dict")), Annotation(<<"o">>, OptionalOf(IntT))>>,
        <<>>))

\* the classes instantiated directly (B is also instantiated by the setters)
TopClasses == DOMAIN Classes([set |-> FALSE, cfg |-> ShiftConfig])

\* ------------------------------------------------------------- ShiftInfo

\* get_field_decorators: per kind of decorator, the function of each field
\* (the last one in __dict__ order), and the fields whose pre-function skips
field_decorators(fns, defs) ==
    LET def(j) == defs[fns[j].e[1].s]
        Covers(j, kind, pre, name) ==
            /\ def(j).kind = kind /\ def(j).pre = pre
            /\ \E i \in 1..Len(def(j).for) : def(j).for[i] = name
        Names(kind, pre) ==
            {name \in UNION {{def(j).for[i] : i \in 1..Len(def(j).for)} : j \in 1..Len(fns)} :
                \E j \in 1..Len(fns) : Covers(j, kind, pre, name)}
        For(kind, pre) ==
            [name \in Names(kind, pre) |->
                fns[CHOOSE j \in 1..Len(fns) :
                        /\ Covers(j, kind, pre, name)
                        /\ \A k \in 1..Len(fns) : Covers(k, kind, pre, name) => k <= j].e[1].s]
        Skips(kind) ==
            {name \in Names(kind, TRUE) :
                \E j \in 1..Len(fns) : Covers(j, kind, TRUE, name) /\ def(j).skip}
    IN  [pre_transformer_skips |-> Skips("transformer"),
         pre_transformers |-> For("transformer", TRUE),
         transformers |-> For("transformer", FALSE),
         pre_validator_skips |-> Skips("validator"),
         pre_validators |-> For("validator", TRUE),
         validators |-> For("validator", FALSE),
         setters |-> For("setter", FALSE),
         reprs |-> For("repr", FALSE),
         serializers |-> For("serializer", FALSE)]

get_field_decorators(cls, defs) ==
    field_decorators(SelectSeq(cls.dict, LAMBDA at :
                         /\ ~IsMagicName(at.s) /\ IsCallable(at.e[1])
                         /\ at.e[1].s \in DOMAIN defs),
                     defs)

\* ShiftInfo(...); first tells that this is the object get_shift_info put
\* into _shift_info_registry
ShiftInfo(instance, model_name, shift_config, fields, dec, data, first) ==
    [instance |-> instance, model_name |-> model_name, shift_config |-> shift_config,
     fields |-> fields,
     pre_transformer_skips |-> dec.pre_transformer_skips,
     pre_transformers |-> dec.pre_transformers,
     transformers |-> dec.transformers,
     pre_validator_skips |-> dec.pre_validator_skips,
     pre_validators |-> dec.pre_validators,
     validators |-> dec.validators,
     setters |-> dec.setters, reprs |-> dec.reprs, serializers |-> dec.serializers,
     data |-> data,
     transform_errors |-> <<>>, validation_errors |-> <<>>, set_errors |-> <<>>,
     first |-> first]

\* What _shift_info_registry keeps of an info and a later call reads: the
\* val of a cached field is never read (get_updated_fields and
\* get_val_fields replace it), nor are instance, data and the error lists.
Cached(info) ==
    [model_name |-> info.model_name, shift_config |-> info.shift_config,
     fields |-> [j \in 1..Len(info.fields) |-> [info.fields[j] EXCEPT !.val = Missing]],
     dec |-> [pre_transformer_skips |-> info.pre_transformer_skips,
              pre_transformers |-> info.pre_transformers,
              transformers |-> info.transformers,
              pre_validator_skips |-> info.pre_validator_skips,
              pre_validators |-> info.pre_validators,
              validators |-> info.validators,
              setters |-> info.setters, reprs |-> info.reprs,
              serializers |-> info.serializers]]

\* the registry entry is the info object itself: what a process writes to
\* the info of a first instantiation shows in the registry
Sync(info, w) ==
    IF info.first THEN [w EXCEPT !.reg = (info.model_name :> Cached(info)) @@ w.reg] ELSE w

\* the outcome of a step of the pipeline: the info and the globals it leaves
Step(st, info, w, err) == [st |-> st, info |-> info, w |-> w, err |-> err]

\* get_shift_info(cls, instance, data)
\* the first instantiation of a class: the info is built and registered
cache_shift_info(gf, info, w) ==
    IF gf.st = "ok" THEN Step("ok", info, Sync(info, w), NoErr)
    ELSE Step(gf.st, info, w, gf.err)

build_shift_info(cls, instance, data, w, shift_config, gf) ==
    cache_shift_info(gf, ShiftInfo(instance, cls.name, shift_config, gf.fields,
                                   get_field_decorators(cls, w.defs), data, TRUE), w)

new_shift_info(cls, instance, data, w, shift_config) ==
    build_shift_info(cls, instance, data, w, shift_config,
                     get_fields(cls, data, shift_config))

\* the cached path, were the config not the cached one but taken anew from
\* the class body and DEFAULT_SHIFT_CONFIG
cached_shift_info_reconfigured(c, instance, data, w) ==
    LET cached == w.reg[c]
        shift_config == get_shift_config(w.classes[c], w)
        uf == get_updated_fields(c, cached.fields, data, shift_config)
        info == ShiftInfo(instance, cached.model_name, shift_config,
                          uf.fields, cached.dec, data, FALSE)
    IN  Step(uf.st, info, w, uf.err)

\* a later instantiation or call: the info is built from the cached one,
\* with the cached shift_config
cached_shift_info(c, instance, data, w) ==
    LET cached == w.reg[c]
        uf == get_updated_fields(c, cached.fields, data, cached.shift_config)
        info == ShiftInfo(instance, cached.model_name, cached.shift_config,
                          uf.fields, cached.dec, data, FALSE)
    IN  Step(uf.st, info, w, uf.err)

\* the shift_config of the info is the one the top-level call works with
config_used(gi) ==
    [gi EXCEPT !.w.used = IF @ = <<>> THEN <<gi.info.shift_config>> ELSE @]

\* get_shift_info(cls, instance, data)
get_shift_info(c, instance, data, w) ==
    config_used(IF c \in DOMAIN w.reg
                THEN cached_shift_info(c, instance, data, w)
                ELSE new_shift_info(w.classes[c], instance, data, w,
                                    get_shift_config(w.classes[c], w)))

\* _build_field_error
build_field_error(field_name, error) ==
    IF error.type = "ShiftFieldError" THEN error
    ELSE IF error.type \in {"ShiftTypeMismatchError", "UnknownShiftTypeError"}
    THEN [Err("ShiftFieldError", field_name, "", <<>>) EXCEPT !.msg = error.msg]
    ELSE error

\* data[name] as a handler left the object it was passed, when that object
\* is the one data holds
Touch(info, name, before, after) ==
    IF DictHas(info.data, name) /\ DictGet(info.data, name) = before
    THEN [info EXCEPT !.data = DictV(DictSet(@.e, StrV(name), after))]
    ELSE info

\* -------------------------------------------------------------- processes

\* the trace with <<type_function, model, field>>: the process calls the
\* shift_type_* function of its phase for the field
Calls(type_function, f, info, w) ==
    [w EXCEPT !.log = Append(@, <<type_function, info.model_name, f.name>>)]

\* _transform_field: res is field.val and typ field.typ as the call leaves them
\* _transform_field after the type transformer returned or raised r1
transform_field_typed(f, info, r1) ==
    LET r2 == IF f.name \in DOMAIN info.transformers
              THEN shift_function_wrapper([f EXCEPT !.val = r1.res, !.typ = r1.typ], info,
                                          info.transformers[f.name], r1.w)
              ELSE r1
    IN  IF r1.st # "ok" THEN r1
        ELSE Out(r2.st, r2.res, r1.obj, r1.typ, r2.w, r2.err)

\* the object the caller passed is out of reach of the type transformer when
\* the pre-transformer returned another one
transform_field_passed(f, r0, r) ==
    IF r0.res = f.val THEN r ELSE [r EXCEPT !.obj = f.val]

transform_field(f, info, w) ==
    LET pre  == f.name \in DOMAIN info.pre_transformers
        r0   == IF pre THEN shift_function_wrapper(f, info, info.pre_transformers[f.name], w)
                ELSE Ok(f.val, f.val, f.typ, w)
        val1 == IF r0.res = Missing /\ ~IsShiftField(f.default) THEN f.default
                ELSE r0.res
    IN  IF r0.st # "ok" THEN r0
        ELSE IF pre /\ f.name \in info.pre_transformer_skips THEN r0
        ELSE transform_field_passed(f, r0,
                 transform_field_typed(f, info,
                     TypeFunction("transformer", [f EXCEPT !.val = val1], info,
                                  Calls("shift_type_transformer", f, info, r0.w))))

\* _transform from field i on
RECURSIVE transform_loop(_, _, _)

\* _transform with the fail_fast branch left out: every error is accumulated
transform_step_accumulate(info, i, r) ==
    LET f  == info.fields[i]
        passed == IF f.val = Missing THEN f.default ELSE f.val
        info1 == Touch([info EXCEPT !.fields[i].typ = r.typ], f.name, passed, r.obj)
        e  == build_field_error(f.name, r.err)
    IN  IF r.st = "ok"
        THEN LET info2 == [info1 EXCEPT !.fields[i].val = r.res]
             IN  transform_loop(info2, i + 1, Sync(info2, r.w))
        ELSE IF r.st \notin ShiftErrors THEN Step(r.st, info1, Sync(info1, r.w), r.err)
        ELSE LET info2 == [info1 EXCEPT !.transform_errors = Append(@, e)]
             IN  transform_loop(info2, i + 1, Sync(info2, r.w))

\* _transform after _transform_field returned or raised r for field i
transform_step(info, i, r) ==
    LET f  == info.fields[i]
        passed == IF f.val = Missing THEN f.default ELSE f.val
        info1 == Touch([info EXCEPT !.fields[i].typ = r.typ], f.name, passed, r.obj)
        e  == build_field_error(f.name, r.err)
    IN  IF r.st = "ok"
        THEN LET info2 == [info1 EXCEPT !.fields[i].val = r.res]
             IN  transform_loop(info2, i + 1, Sync(info2, r.w))
        ELSE IF r.st \notin ShiftErrors THEN Step(r.st, info1, Sync(info1, r.w), r.err)
        ELSE IF info.shift_config.fail_fast
             THEN Step(e.type, info1, Sync(info1, r.w), e)
        ELSE LET info2 == [info1 EXCEPT !.transform_errors = Append(@, e)]
             IN  transform_loop(info2, i + 1, Sync(info2, r.w))

transform_loop(info, i, w) ==
    IF i > Len(info.fields) THEN Step("ok", info, w, NoErr)
    ELSE transform_step(info, i,
             transform_field(info.fields[i], info,
                 [w EXCEPT !.log = Append(@, <<"transform", info.model_name,
                                              info.fields[i].name>>)]))

\* ShiftModelError(model_name, process, field_errors)
ShiftModelError(model_name, process, field_errors) ==
    Err("ShiftModelError", model_name, process, field_errors)

\* ShiftModel.transform(info)
\* the end of a process: the accumulated field errors are raised
process_errors(process, info) ==
    CASE process = "transform" -> info.transform_errors
      [] process = "validation" -> info.validation_errors
      [] process = "set" -> info.set_errors

process_end(process, p) ==
    IF p.st = "ok" /\ Len(process_errors(process, p.info)) > 0
    THEN Step("ShiftModelError", p.info, p.w,
              ShiftModelError(p.info.model_name, process, process_errors(process, p.info)))
    ELSE p

ShiftModel_transform(info, w) == process_end("transform", transform_loop(info, 1, w))

\* validate_field_typed that asks the post-validator whatever the type
\* validator returned
validate_field_typed_always(f, info, r1) ==
    LET r2  == IF f.name \in DOMAIN info.validators
               THEN shift_function_wrapper([f EXCEPT !.typ = r1.typ], info,
                                           info.validators[f.name], r1.w)
               ELSE r1
        False(r) == Ok(Val("bool", 0, <<>>, <<>>), r.obj, r.typ, r.w)
    IN  IF r1.st # "ok" THEN r1
        ELSE IF r2.st # "ok" THEN Out(r2.st, r2.res, r1.obj, r1.typ, r2.w, r2.err)
        ELSE IF ~Truthy(r1.res) \/ ~Truthy(r2.res) THEN False([r2 EXCEPT !.typ = r1.typ])
        ELSE Ok(TrueV, r1.obj, r1.typ, r2.w)

\* _validate_field: res is the bool it returns
\* _validate_field after the type validator returned or raised r1
validate_field_typed(f, info, r1) ==
    LET r2  == IF f.name \in DOMAIN info.validators
               THEN shift_function_wrapper([f EXCEPT !.typ = r1.typ], info,
                                           info.validators[f.name], r1.w)
               ELSE r1
        False(r) == Ok(Val("bool", 0, <<>>, <<>>), r.obj, r.typ, r.w)
    IN  IF r1.st # "ok" THEN r1
        ELSE IF ~Truthy(r1.res) THEN False(r1)
        ELSE IF r2.st # "ok" THEN Out(r2.st, r2.res, r1.obj, r1.typ, r2.w, r2.err)
        ELSE IF ~Truthy(r2.res) THEN False([r2 EXCEPT !.typ = r1.typ])
        ELSE Ok(TrueV, r1.obj, r1.typ, r2.w)

\* _validate_field without the return for pre_validator_skips
validate_field_unskipped(f, info, w) ==
    LET pre == f.name \in DOMAIN info.pre_validators
        r0  == IF pre THEN shift_function_wrapper(f, info, info.pre_validators[f.name], w)
               ELSE Ok(TrueV, f.val, f.typ, w)
    IN  IF r0.st # "ok" THEN r0
        ELSE IF pre /\ ~Truthy(r0.res)
        THEN Ok(Val("bool", 0, <<>>, <<>>), r0.obj, r0.typ, r0.w)
        ELSE validate_field_typed(f, info,
                 TypeFunction("validator", f, info,
                              Calls("shift_type_validator", f, info, r0.w)))

validate_field(f, info, w) ==
    LET pre == f.name \in DOMAIN info.pre_validators
        r0  == IF pre THEN shift_function_wrapper(f, info, info.pre_validators[f.name], w)
               ELSE Ok(TrueV, f.val, f.typ, w)
    IN  IF r0.st # "ok" THEN r0
        ELSE IF pre /\ ~Truthy(r0.res)
        THEN Ok(Val("bool", 0, <<>>, <<>>), r0.obj, r0.typ, r0.w)
        ELSE IF pre /\ f.name \in info.pre_validator_skips THEN Ok(TrueV, r0.obj, f.typ, r0.w)
        ELSE validate_field_typed(f, info,
                 TypeFunction("validator", f, info,
                              Calls("shift_type_validator", f, info, r0.w)))

\* _validate from field i on
RECURSIVE validate_loop(_, _, _)

\* _validate after _validate_field returned or raised r for field i
validate_step(info, i, r) ==
    LET f  == info.fields[i]
        info1 == [info EXCEPT !.fields[i].typ = r.typ]
        failed == r.st = "ok" /\ ~Truthy(r.res)
        e  == IF failed
              THEN [Err("ShiftFieldError", f.name, "", <<>>)
                    EXCEPT !.msg = <<"failed validation">>]
              ELSE build_field_error(f.name, r.err)
    IN  IF r.st = "ok" /\ ~failed
        THEN validate_loop(info1, i + 1, Sync(info1, r.w))
        ELSE IF ~failed /\ r.st \notin ShiftErrors
             THEN Step(r.st, info1, Sync(info1, r.w), r.err)
        ELSE IF info.shift_config.fail_fast
             THEN Step(e.type, info1, Sync(info1, r.w), e)
        ELSE LET info2 == [info1 EXCEPT !.validation_errors = Append(@, e)]
             IN  validate_loop(info2, i + 1, Sync(info2, r.w))

validate_loop(info, i, w) ==
    IF i > Len(info.fields) THEN Step("ok", info, w, NoErr)
    ELSE validate_step(info, i,
             validate_field(info.fields[i], info,
                 [w EXCEPT !.log = Append(@, <<"validation", info.model_name,
                                              info.fields[i].name>>)]))

\* ShiftModel.validate(info)
ShiftModel_validate(info, w) == process_end("validation", validate_loop(info, 1, w))

\* the instance as the body of a function leaves it
FunctionAssigns(def, f, instance) ==
    IF def.body = "setattr(self, name, val + 1)" /\ IsNumber(f.val)
    THEN [instance EXCEPT !.e = SetEntry(@, f.name, Plus1(f.val))]
    ELSE instance

\* _set_field: a setter function of the class is assumed to assign; else
\* setattr(info.instance, field.name, shift_type_setter(...))
set_field(f, info, w) ==
    IF f.name \in DOMAIN info.setters
    THEN shift_function_wrapper(f, info, info.setters[f.name], w)
    ELSE TypeFunction("setter", f, info, Calls("shift_type_setter", f, info, w))

\* _set from field i on
RECURSIVE set_loop(_, _, _)

\* _set after _set_field returned or raised r for field i
set_step(info, i, r) ==
    LET f  == info.fields[i]
        info1 == Touch([info EXCEPT !.fields[i].typ = r.typ], f.name, f.val, r.obj)
        e  == build_field_error(f.name, r.err)
    IN  IF r.st = "ok"
        THEN LET info2 ==
                     IF f.name \in DOMAIN info.setters
                     THEN [info1 EXCEPT !.fields[i].val = r.res,
                                        !.instance = FunctionAssigns(
                                            r.w.defs[info.setters[f.name]], f, @)]
                     ELSE [info1 EXCEPT !.instance.e = SetEntry(@, f.name, r.res)]
             IN  set_loop(info2, i + 1, Sync(info2, r.w))
        ELSE IF r.st \notin ShiftErrors THEN Step(r.st, info1, Sync(info1, r.w), r.err)
        ELSE IF info.shift_config.fail_fast
             THEN Step(e.type, info1, Sync(info1, r.w), e)
        ELSE LET info2 == [info1 EXCEPT !.set_errors = Append(@, e)]
             IN  set_loop(info2, i + 1, Sync(info2, r.w))

set_loop(info, i, w) ==
    IF i > Len(info.fields) THEN Step("ok", info, w, NoErr)
    ELSE set_step(info, i,
             set_field(info.fields[i], info,
                 [w EXCEPT !.log = Append(@, <<"set", info.model_name,
                                              info.fields[i].name>>)]))

\* ShiftModel.set(info)
ShiftModel_set(info, w) == process_end("set", set_loop(info, 1, w))

\* ShiftModel.__init__(**data): res is the instance as __init__ leaves it
\* (also when it raises), obj the data as the processes leave its objects
\* what __init__ leaves when it returns or raises at the step p
init_end(c, p) == Out(p.st, p.info.instance, p.info.data, ModelT(c), p.w, p.err)

init_validated(c, v) ==
    IF v.st # "ok" THEN init_end(c, v) ELSE init_end(c, ShiftModel_set(v.info, v.w))

\* __init__ running set where validate belongs
init_transformed_set_first(c, t) ==
    IF t.st # "ok" THEN init_end(c, t)
    ELSE init_validated(c, ShiftModel_set(t.info, t.w))

init_transformed(c, t) ==
    IF t.st # "ok" THEN init_end(c, t)
    ELSE init_validated(c, ShiftModel_validate(t.info, t.w))

init_info(c, gi) ==
    IF gi.st # "ok" THEN init_end(c, gi)
    ELSE IF ~gi.info.shift_config.do_processing THEN init_end(c, gi)
    ELSE init_transformed(c, ShiftModel_transform(gi.info, gi.w))

\* ------------------------------------------------------ repr and serialize

\* _serialize_field with the omission rules ahead of the serializer function
serialize_field_omitting(f, info, w) ==
    IF IsPrivateName(f.name)
            /\ ~info.shift_config.include_private_fields_in_serialization
    THEN Ok(NoneV, f.val, f.typ, w)
    ELSE IF PyEq(f.val, f.default)
            /\ ~info.shift_config.include_default_fields_in_serialization
    THEN Ok(NoneV, f.val, f.typ, w)
    ELSE IF f.name \in DOMAIN info.serializers
    THEN shift_function_wrapper(f, info, info.serializers[f.name], w)
    ELSE TypeFunction("serializer", f, info, Calls("shift_type_serializer", f, info, w))

\* _serialize_field: res None leaves the field out
serialize_field(f, info, w) ==
    IF f.name \in DOMAIN info.serializers
    THEN shift_function_wrapper(f, info, info.serializers[f.name], w)
    ELSE IF IsPrivateName(f.name)
            /\ ~info.shift_config.include_private_fields_in_serialization
    THEN Ok(NoneV, f.val, f.typ, w)
    ELSE IF PyEq(f.val, f.default)
            /\ ~info.shift_config.include_default_fields_in_serialization
    THEN Ok(NoneV, f.val, f.typ, w)
    ELSE TypeFunction("serializer", f, info, Calls("shift_type_serializer", f, info, w))

\* _repr_field: res None leaves the field out
repr_field(f, info, w) ==
    IF f.name \in DOMAIN info.reprs
    THEN LET r == shift_function_wrapper(f, info, info.reprs[f.name], w)
         IN  IF r.st = "ok" THEN Ok(ReprV(r.res), r.obj, r.typ, r.w) ELSE r
    ELSE IF IsPrivateName(f.name)
            /\ ~info.shift_config.include_private_fields_in_serialization
    THEN Ok(NoneV, f.val, f.typ, w)
    ELSE IF PyEq(f.val, f.default)
            /\ ~info.shift_config.include_default_fields_in_serialization
    THEN Ok(NoneV, f.val, f.typ, w)
    ELSE TypeFunction("repr", f, info, Calls("shift_type_repr", f, info, w))

\* The loop of _serialize and of _repr from field i on; result holds the
\* entries so far.  field.val is the attribute's own object, so what a type
\* function assigns into it shows in the instance.
RECURSIVE fields_loop(_, _, _, _, _)

\* _serialize or _repr after the field function returned or raised r for
\* field i
fields_step(process, info, result, i, r) ==
    LET f == info.fields[i]
        instance == IF HasEntry(info.instance.e, f.name)
                    THEN [info.instance EXCEPT !.e = SetEntry(@, f.name, r.obj)]
                    ELSE info.instance
    IN  IF r.st # "ok"
        THEN Out(r.st, NoneV, instance, ModelT(info.model_name), r.w, r.err)
        \* the result of a ShiftField without serialize_as is not wrapped in a
        \* dict: result.update(res) raises TypeError for an int
        ELSE IF r.res # NoneV /\ IsShiftField(f.default) /\ process = "serialize"
        THEN Raise("TypeError", instance, ModelT(info.model_name), r.w)
        ELSE fields_loop(process, [info EXCEPT !.instance = instance],
                         IF r.res = NoneV THEN result
                         \* the repr of a ShiftField without repr_as gets no name
                         ELSE IF IsShiftField(f.default)
                         THEN [result EXCEPT !.e = Append(@, AttrV(<<>>, r.res))]
                         ELSE [result EXCEPT !.e = SetEntry(@, f.name, r.res)],
                         i + 1, r.w)

fields_loop(process, info, result, i, w) ==
    IF i > Len(info.fields)
    THEN Out("ok", result, info.instance, ModelT(info.model_name), w, NoErr)
    ELSE fields_step(process, info, result, i,
             IF process = "serialize" THEN serialize_field(info.fields[i], info, w)
             ELSE repr_field(info.fields[i], info, w))

\* the __shift_config__ entry of _serialize and _repr
ShowsConfig(info, w) ==
    /\ info.shift_config.include_private_fields_in_serialization
    /\ \/ info.shift_config # w.dflt
       \/ info.shift_config.include_default_fields_in_serialization

\* the entries of a result as the items of a dict
AsDict(result) == DictV([j \in 1..Len(result.e) |-> Kw(result.e[j].s, result.e[j].e[1])])

\* ShiftModel.serialize(): res the dict, obj the instance as the call leaves it
\* _serialize and _repr: the result starts with the __shift_config__ entry
show_start(process, info, w) ==
    ModelV(info.model_name,
           IF ShowsConfig(info, w)
           THEN <<AttrV(<<"__shift_config__">>,
                        IF process = "repr"
                        THEN ReprV(ShiftConfig_serialize(info.shift_config))
                        ELSE ShiftConfig_serialize(info.shift_config))>>
           ELSE <<>>)

\* serialize() returns the dict, __repr__ the string of the entries
show_end(process, r) ==
    IF r.st # "ok" THEN r
    ELSE Ok(IF process = "repr" THEN ReprV(r.res) ELSE AsDict(r.res), r.obj, r.typ, r.w)

show_fields(process, info, w) ==
    show_end(process, fields_loop(process, info, show_start(process, info, w), 1, w))

\* serialize() and __repr__ after get_shift_info(type(self), self, {})
\* returned or raised gi
show_info(process, instance, gi) ==
    IF gi.st # "ok" THEN Out(gi.st, NoneV, instance, ModelT(instance.s), gi.w, gi.err)
    ELSE show_fields(process,
             [gi.info EXCEPT !.fields =
                 get_val_fields(gi.w.classes[instance.s], instance, @)],
             gi.w)

\* The attributes of two instances that are one object: a list a serializer
\* returned is the attribute's own list, and a list that can be indexed goes
\* through transform and set as the same object.
Shared(x, y) ==
    {j \in 1..Len(x.e) :
        /\ x.e[j].e[1].k = "list" /\ x.e[j].e[1].e # <<>>
        /\ HasEntry(y.e, x.e[j].s)}

\* y as x's call left the objects they share
Follow(x, y, shared) ==
    [y EXCEPT !.e = [j \in 1..Len(y.e) |->
        IF \E i \in shared : x.e[i].s = y.e[j].s
        THEN AttrV(y.e[j].s, GetEntry(x.e, y.e[j].s)) ELSE y.e[j]]]

\* __eq__ after other.serialize() returned or raised r2
eq_other(shared, r1, r2) ==
    [st |-> r2.st, res |-> r2.st = "ok" /\ PyEq(r1.res, r2.res),
     self |-> Follow(r2.obj, r1.obj, shared), other |-> r2.obj, w |-> r2.w, err |-> r2.err]

\* __eq__ after self.serialize() returned or raised r1
eq_self(other, shared, r1) ==
    IF r1.st # "ok"
    THEN [st |-> r1.st, res |-> FALSE, self |-> r1.obj,
          other |-> Follow(r1.obj, other, shared), w |-> r1.w, err |-> r1.err]
    ELSE eq_other(shared, r1, ShiftModel_serialize(Follow(r1.obj, other, shared), r1.w))

\* __copy__ after type(self)(**data) returned or raised r2: the lists of the
\* serialized dict are self's own, so what __init__ left in data is what
\* self holds
copy_end(r1, r2) ==
    Out(r2.st, r2.res,
        [r1.obj EXCEPT !.e = [j \in 1..Len(r1.obj.e) |->
            IF /\ j \in Shared(r1.obj, r1.obj)
               /\ DictHas(r2.obj, r1.obj.e[j].s)
            THEN AttrV(r1.obj.e[j].s, DictGet(r2.obj, r1.obj.e[j].s))
            ELSE r1.obj.e[j]]],
        r2.typ, r2.w, r2.err)

\* __copy__ after self.serialize() returned or raised r1
copy_serialized(self, r1) ==
    IF r1.st # "ok" THEN r1 ELSE copy_end(r1, ShiftModel_init(self.s, r1.res, r1.w))

\* validate(**data) running the set process as well
validate_end_committing(v) ==
    LET s == IF v.st = "ok" THEN ShiftModel_set(v.info, v.w) ELSE v
    IN  Out(s.st, TrueV, s.info.instance, ModelT(s.info.model_name), s.w, s.err)

\* ShiftModel.validate(**data): returns True or raises; obj is the instance
\* as the call leaves it
validate_end(v) == Out(v.st, TrueV, v.info.instance, ModelT(v.info.model_name), v.w, v.err)

\* validate(**data) after get_shift_info(type(self), self, data) returned or
\* raised gi
validate_info(gi) ==
    IF gi.st # "ok"
    THEN Out(gi.st, NoneV, gi.info.instance, ModelT(gi.info.model_name), gi.w, gi.err)
    ELSE validate_end(ShiftModel_validate(gi.info, gi.w))

\* ShiftModel.set(**data): returns None or raises; obj is the instance as
\* the call leaves it
set_end(p) == Out(p.st, NoneV, p.info.instance, ModelT(p.info.model_name), p.w, p.err)

\* set(**data) after get_shift_info(type(self), self, data) returned or
\* raised gi
set_info(gi) ==
    IF gi.st # "ok"
    THEN Out(gi.st, NoneV, gi.info.instance, ModelT(gi.info.model_name), gi.w, gi.err)
    ELSE set_end(ShiftModel_set(gi.info, gi.w))

\* What a call does. Of a type function, on the field a and the info b:
\* the function of that phase. Of a method of ShiftModel: __init__(**b) of
\* class a, and on the instance a repr(a), a.serialize(), copy(a),
\* a == b (c the attributes the two share), a.validate(**b), a.set(**b).
Invoke(fn, a, b, c, w) ==
    CASE fn = "transformer" -> shift_type_transformer(a, b, w)
      [] fn = "validator"   -> shift_type_validator(a, b, w)
      [] fn = "setter"      -> shift_type_setter(a, b, w)
      [] fn = "repr"        -> shift_type_repr(a, b, w)
      [] fn = "serializer"  -> shift_type_serializer(a, b, w)
      [] fn = "__init__"    ->
            init_info(a, get_shift_info(a, ModelV(a, <<>>), b, w))
      [] fn = "__repr__"    ->
            show_info("repr", a, get_shift_info(a.s, a, DictV(<<>>), w))
      [] fn = "serialize"   ->
            show_info("serialize", a, get_shift_info(a.s, a, DictV(<<>>), w))
      [] fn = "__copy__"    -> copy_serialized(a, ShiftModel_serialize(a, w))
      [] fn = "__eq__"      ->
            IF ~(b.k = "ShiftModel" /\ b.s = a.s)
            THEN [st |-> "ok", res |-> FALSE, self |-> a, other |-> b, w |-> w,
                  err |-> NoErr]
            ELSE eq_self(b, c, ShiftModel_serialize(a, w))
      [] fn = "validate"    -> validate_info(get_shift_info(a.s, a, b, w))
      [] fn = "set"         -> set_info(get_shift_info(a.s, a, b, w))

\* ShiftModel.__copy__(): type(self)(**self.serialize()); res the copy, obj
\* self as the call leaves it
ShiftModel_copy(self, w) == Invoke("__copy__", self, NoneV, NoneV, w)

\* ShiftModel.__eq__(self, other) when self and other share the attributes
\* `shared`: res the bool, self and other as the call leaves them
ShiftModel_eq(self, other, shared, w) == Invoke("__eq__", self, other, shared, w)

\* x.validate(**data)
ShiftModel_validate_call(x, data, w) == Invoke("validate", x, data, NoneV, w)

\* x.set(**data)
ShiftModel_set_call(x, data, w) == Invoke("set", x, data, NoneV, w)

\* ------------------------------------------------------------------ inputs

\* the expression B(v=1) among the arguments of a call: the instance is
\* built, by B's __init__, before the call
NewB == Val("call", 1, <<"B">>, <<>>)

RECURSIVE UsesNewB(_)
UsesNewB(v) == v = NewB \/ \E i \in 1..Len(v.e) : UsesNewB(v.e[i])

RECURSIVE Subst(_, _)
Subst(v, b) ==
    IF v = NewB THEN b ELSE [v EXCEPT !.e = [i \in 1..Len(v.e) |-> Subst(v.e[i], b)]]

\* the keyword argument name=v for v in vals, or no such argument
Arg(name, vals) == {<<Kw(name, v)>> : v \in vals}
OptArg(name, vals) == {<<>>} \union Arg(name, vals)

\* the lists of at most n elements drawn from elems
RECURSIVE ListsUpTo(_, _)
ListsUpTo(n, elems) ==
    IF n = 0 THEN {<<>>}
    ELSE ListsUpTo(n - 1, elems)
         \union {Append(l, x) : l \in {m \in ListsUpTo(n - 1, elems) : Len(m) = n - 1},
                                x \in elems}

S(c) == StrV(<<c>>)

\* the deepest nesting of the dicts passed to the self-referential class S
MaxNest == 2

\* n dicts {"nest": ...} around an empty dict
RECURSIVE Nested(_)
Nested(n) == IF n = 0 THEN DictV(<<>>) ELSE DictV(<<Kw(<<"nest">>, Nested(n - 1))>>)
GoodB == DictV(<<Kw(<<"v">>, IntV(1))>>)
BadB == DictV(<<Kw(<<"v">>, S("s"))>>)

\* the keyword arguments the model passes to the __init__ of class c
Inputs(c) ==
    CASE c = <<"B">> -> {DictV(v) : v \in Arg(<<"v">>, {IntV(1)})}
      [] c = <<"P">> ->
            {DictV(a \o b \o cc) :
                a \in OptArg(<<"a">>, {IntV(1), S("s")}),
                b \in OptArg(<<"b">>, {S("y"), IntV(7)}),
                cc \in OptArg(<<"c">>, {NoneV, S("s")})}
      [] c = <<"R">> ->
            {DictV(p \o q) :
                p \in OptArg(<<"_", "p">>, {IntV(3)}),
                q \in OptArg(<<"q">>, {IntV(7), S("s")})}
      [] c = <<"U">> ->
            {DictV(u) : u \in OptArg(<<"u">>, {IntV(10), S("s"), FloatV(3), TrueV, NoneV})}
      [] c = <<"W">> ->
            {DictV(x) : x \in OptArg(<<"w">>, {S("a"), ListV(<<IntV(1)>>), IntV(1)})}
      [] c = <<"T">> ->
            {DictV(t) : t \in OptArg(<<"t">>,
                {TupleV(<<S("a"), IntV(1)>>), TupleV(<<S("a")>>),
                 TupleV(<<S("a"), S("b")>>), TupleV(<<S("a"), IntV(1), IntV(2)>>),
                 ListV(<<S("a"), IntV(1)>>), StrV(<<"a", "b">>), IntV(1),
                 DictV(<<PairV(S("a"), IntV(1)), PairV(IntV(2), IntV(3))>>)})}
      [] c = <<"L">> ->
            {DictV(x) : x \in OptArg(<<"xs">>,
                {ListV(l) : l \in ListsUpTo(MaxLen, {IntV(1), IntV(2), S("s")})}
                \union {TupleV(<<IntV(1), IntV(2)>>), IntV(1)})}
      [] c = <<"C">> ->
            {DictV(x) : x \in Arg(<<"bs">>,
                {ListV(l) : l \in ListsUpTo(MaxLen, {NewB, GoodB, BadB})})}
      [] c = <<"D">> ->
            {DictV(x) : x \in OptArg(<<"d">>,
                {DictV(<<>>), DictV(<<PairV(S("a"), IntV(1))>>),
                 DictV(<<PairV(S("a"), IntV(1)), PairV(S("b"), IntV(2))>>),
                 DictV(<<PairV(S("a"), S("s"))>>), DictV(<<PairV(IntV(1), IntV(1))>>),
                 ListV(<<IntV(1)>>)})}
      [] c = <<"N">> ->
            {DictV(b \o cc) :
                b \in OptArg(<<"b">>, {NewB, GoodB, BadB}),
                cc \in Arg(<<"c">>, {NewB, GoodB, BadB, IntV(1)})}
      [] c = <<"M">> ->
            {DictV(m) : m \in Arg(<<"m">>,
                {NewB, ClassV(<<"U">>), ClassV(<<"B">>),
                 DictV(<<Kw(<<"u">>, IntV(10))>>), IntV(1)})}
      [] c = <<"F">> ->
            {DictV(a \o b \o cc) :
                a \in Arg(<<"a">>, {IntV(1), S("s")}),
                b \in Arg(<<"b">>, {IntV(2)}),
                cc \in Arg(<<"c">>, {GoodB, BadB, IntV(3)})}
      [] c = <<"H">> ->
            {DictV(a \o b) :
                a \in OptArg(<<"a">>, {IntV(1), S("s")}),
                b \in Arg(<<"b">>, {IntV(2), S("s")})}
      [] c = <<"A">> ->
            {DictV(v) : v \in OptArg(<<"val">>, {IntV(3), IntV(12), S("s"), NoneV})}
      [] c = <<"G">> ->
            {DictV(v) : v \in OptArg(<<"val">>, {IntV(3), IntV(12)})}
      [] c = <<"V">> ->
            {DictV(v) : v \in OptArg(<<"val">>, {IntV(1), S("s")})}
      [] c = <<"S">> ->
            {Nested(n) : n \in 0..MaxNest}
            \union {DictV(x) : x \in Arg(<<"nest">>,
                        {IntV(1), NoneV, NewB, ClassV(<<"S">>), ClassV(<<"B">>)})}
      [] c = <<"K">> ->
            {DictV(a \o b) :
                a \in OptArg(<<"a">>, {IntV(1), FloatV(3)}),
                b \in Arg(<<"b">>, {IntV(1), FloatV(3)})}
      [] c = <<"Q">> ->
            {DictV(a \o b \o cc) :
                a \in Arg(<<"a">>, {IntV(1), S("s")}),
                b \in Arg(<<"b">>, {IntV(0), IntV(2)}),
                cc \in Arg(<<"c">>, {IntV(0), IntV(1)})}
      [] c = <<"E">> ->
            {DictV(a \o d) :
                a \in OptArg(<<"a">>, {IntV(3)}),
                d \in OptArg(<<"d">>, {IntV(5), IntV(7)})}
      [] c = <<"J">> ->
            {DictV(a) : a \in Arg(<<"a">>, {IntV(1), IntV(2)})}
      [] c = <<"Y">> ->
            {DictV(y) : y \in OptArg(<<"y">>, {IntV(1)})}
      [] c = <<"Z">> ->
            {DictV(v) : v \in OptArg(<<"val">>,
                {IntV(n) : n \in 0..6} \union {IntV(14), TrueV, S("s"), FloatV(3)})}
      [] c = <<"O">> ->
            {DictV(xs) : xs \in OptArg(<<"xs">>, {ListV(l) : l \in ListsUpTo(MaxLen, {IntV(1)})})}
      [] c = <<"I">> ->
            {DictV(xs \o rest) :
                xs \in OptArg(<<"xs">>, {ListV(<<IntV(1)>>), IntV(1)}),
                rest \in {<<>>,
                          <<Kw(<<"t">>, TupleV(<<S("a"), IntV(1)>>)),
                            Kw(<<"d">>, DictV(<<PairV(S("a"), IntV(1))>>)),
                            Kw(<<"o">>, IntV(1))>>}}

\* the attribute assignments x.name = val the model makes on an instance of c
Assignments(c) ==
    CASE c = <<"P">> -> {<<<<"c">>, NoneV>>}
      [] c = <<"R">> -> {<<<<"q">>, IntV(7)>>}
      [] OTHER -> {}

\* the __shift_config__ assignments of the class bodies: none, or a
\* ShiftConfig(...) call
Configs ==
    {[set |-> FALSE, cfg |-> ShiftConfig]}
    \union {[set |-> TRUE, cfg |-> [ShiftConfig EXCEPT !.do_processing = FALSE]]}
    \union {[set |-> TRUE,
             cfg |-> [ShiftConfig EXCEPT
                        !.fail_fast = ff,
                        !.allow_private_field_setting = ap,
                        !.include_default_fields_in_serialization = id,
                        !.include_private_fields_in_serialization = ip]] :
            ff \in BOOLEAN, ap \in BOOLEAN, id \in BOOLEAN, ip \in BOOLEAN}

\* the configs the class bodies of a run with class c declare
ConfigsOf(c) ==
    LET Only(flags) ==
            {k \in Configs : k.set /\ k.cfg.do_processing /\
                \A f \in DOMAIN ShiftConfig \ flags : k.cfg[f] = ShiftConfig[f]}
    IN  CASE c = <<"P">> ->
                Only({"fail_fast", "include_default_fields_in_serialization"})
          [] c = <<"R">> ->
                Only({"allow_private_field_setting",
                      "include_default_fields_in_serialization",
                      "include_private_fields_in_serialization"})
                \union {k \in Configs : ~k.cfg.do_processing}
          [] c \in {<<"N">>, <<"F">>, <<"H">>, <<"Q">>} -> Only({"fail_fast"})
          [] OTHER -> {k \in Configs : ~k.set}

\* ------------------------------------------------------- the state machine

VARIABLES
    cls,                    \* the class the run instantiates
    config,                 \* the __shift_config__ of the class bodies
    shift_types,            \* _shift_types
    resolved_forward_refs,  \* _resolved_forward_refs
    shift_info_registry,    \* _shift_info_registry
    shift_functions,        \* _shift_functions
    default_shift_config,   \* DEFAULT_SHIFT_CONFIG
    inst,                   \* the instance the program holds, or None
    last,                   \* the last call: arguments, outcome and trace
    prev                    \* the call before it

vars == <<cls, config, shift_types, resolved_forward_refs, shift_info_registry,
          shift_functions, default_shift_config, inst, last, prev>>

\* The module globals a call reads and writes, passed along as one record:
\*   types  _shift_types                 reg    _shift_info_registry
\*   fwd    _resolved_forward_refs       funcs  _shift_functions
\*   dflt   DEFAULT_SHIFT_CONFIG
\* together with config, the __shift_config__ of the class bodies, and log,
\* the trace of the running top-level call: <<"resolve_forward_ref", model,
\* name>> for every invocation of resolve_forward_ref, <<process, model,
\* field>> for every field a process (transform, validation, set) takes up,
\* <<"shift_type_transformer", model, field>> (and _validator, _setter,
\* _repr, _serializer) for every call of a type function on a field of a
\* model, <<"signature", func, <<>>>> for every inspect.signature of
\* shift_function_wrapper and <<"call", func, <<form>>>> for every call it
\* makes, in the simple or the advanced form;
\* and used, the shift_config of the info the running top-level call got from
\* get_shift_info (none before it did).  The record also holds what the
\* module under test defines: defs its functions, classes its class bodies
\* and fields its ShiftField(...) objects.
World(types, fwd, reg, funcs, dflt, body_config, log) ==
    [types |-> types, fwd |-> fwd, reg |-> reg, funcs |-> funcs, dflt |-> dflt,
     config |-> body_config, log |-> log, used |-> <<>>,
     defs |-> Functions, classes |-> Classes(body_config), fields |-> ShiftFields]

\* the globals as a call finds them
Globals ==
    World(shift_types, resolved_forward_refs, shift_info_registry, shift_functions,
          default_shift_config, config, <<>>)

\* a call leaves the globals w
SetGlobals(w) ==
    /\ shift_types' = w.types
    /\ resolved_forward_refs' = w.fwd
    /\ shift_info_registry' = w.reg
    /\ shift_functions' = w.funcs
    /\ default_shift_config' = w.dflt
    /\ UNCHANGED <<cls, config>>

NoEq == [st |-> "none", res |-> FALSE]

\* The record of a call.  op: the call; c: the class; data: the keyword
\* arguments; first: whether c was not yet in _shift_info_registry; fresh:
\* whether the call is the first one on the instance since its construction;
\* before: the instance before the call; st, err, res: the outcome; after:
\* the instance as the call leaves it (for __init__ the instance under
\* construction, also when it raises); data_after: the arguments as the call
\* leaves them; eq: the outcome of comparing the result with the instance;
\* log: the trace of the call; cached: the shift_config _shift_info_registry
\* held for c when the call began; used: the shift_config the call worked with;
\* typ: the argument of a get_shift_type or register_shift_type call;
\* funcs: _shift_functions when the call began.
\* what a construction gave: the instance, or the error it raised
Outcome(r) == [st |-> r.st, err |-> r.err, res |-> IF r.st = "ok" THEN r.res ELSE NoneV]
NoOutcome == [st |-> "none", err |-> NoErr, res |-> NoneV]

Call(op, c, data, first, before, r, after, data_after, eq) ==
    [op |-> op, c |-> c, data |-> data, first |-> first, fresh |-> last.op = "init",
     before |-> before,
     st |-> r.st, err |-> r.err, res |-> IF r.st = "ok" THEN r.res ELSE NoneV,
     after |-> after, data_after |-> data_after, eq |-> eq, log |-> r.w.log,
     cached |-> IF c \in DOMAIN shift_info_registry
                THEN <<shift_info_registry[c].shift_config>> ELSE <<>>,
     used |-> r.w.used, typ |-> Plain("None"), funcs |-> shift_functions,
     alone |-> NoOutcome]

NoCall ==
    [op |-> "none", c |-> <<>>, data |-> NoneV, first |-> FALSE, fresh |-> FALSE,
     before |-> NoneV,
     st |-> "none", err |-> NoErr, res |-> NoneV, after |-> NoneV, data_after |-> NoneV,
     eq |-> NoEq, log |-> <<>>, cached |-> <<>>, used |-> <<>>, typ |-> Plain("None"),
     funcs |-> EmptyMap, alone |-> NoOutcome]

\* what the next call remembers of a call: of a serialize() its outcome
Summary(call) ==
    IF call.op = "serialize"
    THEN [op |-> call.op, fresh |-> call.fresh, st |-> call.st, res |-> call.res]
    ELSE [op |-> call.op, fresh |-> FALSE, st |-> "", res |-> NoneV]

\* module import: reset_starshift_globals() ran, nothing is instantiated
Init ==
    /\ cls \in TopClasses \ {<<"B">>}
    /\ config \in ConfigsOf(cls)
    /\ shift_types = shift_builtin_types
    /\ resolved_forward_refs = EmptyMap
    /\ shift_info_registry = EmptyMap
    /\ shift_functions = EmptyMap
    /\ default_shift_config = ShiftConfig
    /\ inst = NoneV
    /\ last = NoCall
    /\ prev = Summary(NoCall)

\* the classes the program instantiates when cls is under test
Instantiable(c) == IF c = <<"F">> THEN {c, <<"B">>} ELSE {c}

\* the globals without the model info of class c: get_shift_info builds it
\* anew
Uncached(w, c) == [w EXCEPT !.reg = [k \in DOMAIN w.reg \ {c} |-> w.reg[k]]]

\* c(**args) under each of the globals ws, one after the other
RECURSIVE init_each(_, _, _)
init_each(c, args, ws) ==
    IF ws = <<>> THEN <<>>
    ELSE <<ShiftModel_init(c, args, Head(ws))>> \o init_each(c, args, Tail(ws))

\* the call c(**args) returned or raised rs[1]; rs[2] is what the call gives
\* when it is the one that builds the model info of c
Instantiated(c, args, first, rs) ==
    /\ SetGlobals(rs[1].w)
    /\ inst' = IF c # cls THEN inst ELSE IF rs[1].st = "ok" THEN rs[1].res ELSE NoneV
    /\ last' = [Call("init", c, args, first, inst, rs[1], rs[1].res, rs[1].obj, NoEq)
                EXCEPT !.alone = Outcome(rs[Len(rs)])]
    /\ prev' = Summary(last)

Construct(c, args, w) ==
    Instantiated(c, args, c \notin DOMAIN w.reg,
                 init_each(c, args, IF c \notin DOMAIN w.reg THEN <<w>>
                                    ELSE <<w, Uncached(w, c)>>))

\* the B(v=1) among the arguments, if there is one, is constructed: rb
WithB(c, data, rb) ==
    /\ rb.st = "ok"
    /\ Construct(c, IF UsesNewB(data) THEN Subst(data, rb.res) ELSE data,
                 Untraced(rb.w))

\* x = c(**data); a B(v=1) among the arguments is constructed first.  The
\* program constructs its instance, maybe a second time, before it works
\* with it.
Instantiate(c, data) ==
    /\ c \in Instantiable(cls)
    /\ \/ last.op \in {"none", "config", "deregister", "register"}
       \/ last.op = "init" /\ prev.op = "none"
    /\ data \in Inputs(c)
    /\ WithB(c, data, IF UsesNewB(data) THEN ShiftModel_init(<<"B">>, GoodB, Globals)
                       ELSE Ok(NoneV, NoneV, NoneV, Globals))

\* the program changed a global itself: a flag of DEFAULT_SHIFT_CONFIG is
\* not at its initial value, or a builtin type is not registered
Changed ==
    default_shift_config # ShiftConfig \/ shift_types # shift_builtin_types

\* after such a change the program makes one more call, and may reset
AfterChange ==
    /\ Changed => last.op \in {"config", "deregister"}
    /\ last.op # "reset"

\* serialize() or repr() returned or raised r
Shown(op, r) ==
    /\ SetGlobals(r.w)
    /\ inst' = r.obj
    /\ last' = Call(op, cls, NoneV, FALSE, inst, r, r.obj, NoneV, NoEq)
    /\ prev' = Summary(last)

\* x.serialize()
Serialize ==
    /\ inst # NoneV
    /\ AfterChange
    /\ Shown("serialize", ShiftModel_serialize(inst, Globals))

\* how deep x holds the repr of a repr
RECURSIVE ReprDepth(_)
ReprDepth(x) ==
    LET Deepest(ds) == IF ds = {} THEN 0 ELSE CHOOSE d \in ds : \A o \in ds : o <= d
        inner == Deepest({ReprDepth(x.e[i]) : i \in 1..Len(x.e)})
    IN  IF x.k = "str" /\ x.s = <<"repr">> THEN inner + 1 ELSE inner

\* the deepest repr of a repr an instance comes to hold
MaxRepr == 2

\* repr(x)
Repr ==
    /\ inst # NoneV
    /\ ReprDepth(inst) < MaxRepr
    /\ AfterChange
    /\ Shown("repr", ShiftModel_repr(inst, Globals))

\* the copy r.res was compared with x: eq
Compared(r, eq) ==
    /\ SetGlobals(eq.w)
    /\ inst' = eq.other
    /\ last' = Call("copy", cls, NoneV, FALSE, inst, r, eq.other, NoneV,
                    [st |-> eq.st, res |-> eq.res])
    /\ prev' = Summary(last)

\* copy.copy(x) returned or raised r
Copied(r) ==
    IF r.st = "ok"
    THEN Compared(r, ShiftModel_eq(r.res, r.obj, Shared(r.obj, r.res),
                                   Untraced(r.w)))
    ELSE Shown("copy", r)

\* y = copy.copy(x); y == x
Copy ==
    /\ inst # NoneV
    /\ ~Changed /\ last.op # "reset"
    /\ Copied(ShiftModel_copy(inst, Globals))

\* x.validate(**data) returned or raised r
Validated(data, r) ==
    /\ SetGlobals(r.w)
    /\ inst' = r.obj
    /\ last' = Call("validate", cls, data, FALSE, inst, r, r.obj, NoneV, NoEq)
    /\ prev' = Summary(last)

\* x.validate(**data), right after the construction of x
Validate(data) ==
    /\ inst # NoneV
    /\ last.op = "init"
    /\ ~Changed
    /\ data \in Inputs(cls) /\ ~UsesNewB(data)
    /\ Validated(data, ShiftModel_validate_call(inst, data, Globals))

\* x.set(**data) returned or raised r
WasSet(data, r) ==
    /\ SetGlobals(r.w)
    /\ inst' = r.obj
    /\ last' = Call("set", cls, data, FALSE, inst, r, r.obj, NoneV, NoEq)
    /\ prev' = Summary(last)

\* x.set(**data), right after the construction of x
Set(data) ==
    /\ inst # NoneV
    /\ last.op = "init"
    /\ ~Changed
    /\ data \in Inputs(cls) /\ ~UsesNewB(data)
    /\ WasSet(data, ShiftModel_set_call(inst, data, Globals))

\* x.name = val
Assign(name, val) ==
    /\ inst # NoneV
    /\ <<name, val>> \in Assignments(cls)
    /\ ~Changed /\ last.op # "reset"
    /\ UNCHANGED <<cls, config, shift_types, resolved_forward_refs, shift_info_registry,
                   shift_functions, default_shift_config>>
    /\ LET r == Ok(NoneV, NoneV, NoneV, Globals)
           x == [inst EXCEPT !.e = SetEntry(@, name, val)]
       IN  /\ inst' = x
           /\ last' = Call("assign", cls, DictV(<<Kw(name, val)>>), FALSE, inst, r, x,
                           NoneV, NoEq)
           /\ prev' = Summary(last)

\* a call that only writes globals returned
Written(op) ==
    /\ last' = Call(op, cls, NoneV, FALSE, inst, Ok(NoneV, NoneV, NoneV, Globals),
                    inst, NoneV, NoEq)
    /\ prev' = Summary(last)
    /\ UNCHANGED <<cls, config, inst>>

\* DEFAULT_SHIFT_CONFIG.flag = not DEFAULT_SHIFT_CONFIG.flag, once the model
\* info of the class is cached
SetDefaultConfig(flag) ==
    /\ last.op = "init" /\ last.c = cls
    /\ cls \in DOMAIN shift_info_registry
    /\ flag \in DOMAIN ShiftConfig
    /\ ~Changed
    /\ default_shift_config' = [default_shift_config EXCEPT ![flag] = ~@]
    /\ Written("config")
    /\ UNCHANGED <<shift_types, resolved_forward_refs, shift_info_registry,
                   shift_functions>>

\* deregister_shift_type(typ) for a registered type, once the model info of
\* the class is cached
DeregisterShiftType(typ) ==
    /\ last.op = "init" /\ last.c = cls
    /\ cls \in DOMAIN shift_info_registry
    /\ ~Changed
    /\ typ \in DOMAIN shift_types
    /\ shift_types' = [t \in DOMAIN shift_types \ {typ} |-> shift_types[t]]
    /\ Written("deregister")
    /\ UNCHANGED <<resolved_forward_refs, shift_info_registry, shift_functions,
                   default_shift_config>>

\* the registrations the run of a class makes.  Y: keys with a stock handler,
\* a record subclass, a parameterized generic, None, and the class `type`.
\* Q: register_shift_type(int, never_shift_type), where
\*    never_shift_type = ShiftType(validator=never)
\* has the defaults of ShiftType, the wrappers of the base type functions,
\* for the other four functions.
Registrations(c) ==
    CASE c = <<"Y">> ->
            {<<ModelT(<<"B">>), "base_shift_type">>, <<ListOf(IntT), "any_shift_type">>,
             <<Plain("None"), "any_shift_type">>, <<Plain("type"), "none_shift_type">>}
      [] c = <<"Q">> -> {<<IntT, "never_shift_type">>}
      [] OTHER -> {}

\* register_shift_type(typ, shift_type), before anything is instantiated
RegisterShiftType(typ, shift_type) ==
    /\ last.op = "none" /\ <<typ, shift_type>> \in Registrations(cls)
    /\ shift_types' = (typ :> shift_type) @@ shift_types
    /\ last' = [Call("register", cls, NoneV, FALSE, inst,
                      Ok(NoneV, NoneV, NoneV, Globals), inst, NoneV, NoEq)
                 EXCEPT !.typ = typ]
    /\ prev' = Summary(last)
    /\ UNCHANGED <<cls, config, inst, resolved_forward_refs, shift_info_registry,
                   shift_functions, default_shift_config>>

\* the arguments get_shift_type is called with: classes, generics, a
\* ForwardRef, a record subclass, a class without handler, and the objects 5,
\* [int] and {}
Lookups ==
    {IntT, StrT, ListOf(IntT), ListOf(StrT), DictOf(StrT, IntT), OptionalOf(IntT),
     ForwardRefT(<<"B">>), ModelT(<<"B">>), ModelT(<<"M">>), Plain("object"),
     ObjectT("int"), ObjectT("list"), ObjectT("dict")}

\* get_shift_type(typ) returned a handler or None, or raised
GetShiftType(typ) ==
    /\ last.op \in {"none", "register", "deregister"} /\ cls = <<"Y">>
    /\ LET shift_typ == get_shift_type(typ, shift_types)
           r == IF shift_typ \in {"TypeError", "KeyError"}
                THEN Raise(shift_typ, NoneV, typ, Globals)
                ELSE Ok(IF shift_typ = "None" THEN NoneV ELSE S(shift_typ),
                        NoneV, typ, Globals)
       IN  last' = [Call("get_shift_type", cls, NoneV, FALSE, inst, r, inst, NoneV, NoEq)
                    EXCEPT !.typ = typ]
    /\ prev' = Summary(last)
    /\ UNCHANGED <<cls, config, inst, shift_types, resolved_forward_refs,
                   shift_info_registry, shift_functions, default_shift_config>>

\* reset_starshift_globals(): the registries are cleared, _shift_types is
\* refilled with the builtin types, and flags of DEFAULT_SHIFT_CONFIG are
\* assigned their initial values
reset_starshift_globals(w) ==
    [w EXCEPT !.types = shift_builtin_types,
              !.fwd = EmptyMap,
              !.reg = EmptyMap,
              !.funcs = EmptyMap,
              !.dflt = [@ EXCEPT !.do_processing = TRUE,
                                 !.fail_fast = FALSE,
                                 !.try_coerce_types = FALSE,
                                 !.include_default_fields_in_serialization = FALSE,
                                 !.include_private_fields_in_serialization = FALSE]]

\* reset_starshift_globals(), after a construction or a change of a global
Reset ==
    /\ last.op \notin {"none", "reset"}
    /\ Changed \/ last.op = "init"
    /\ SetGlobals(reset_starshift_globals(Globals))
    /\ inst' = inst
    /\ last' = Call("reset", cls, NoneV, FALSE, inst, Ok(NoneV, NoneV, NoneV, Globals),
                    inst, NoneV, NoEq)
    /\ prev' = Summary(last)

Next ==
    \/ \E c \in TopClasses : \E data \in Inputs(c) : Instantiate(c, data)
    \/ Serialize
    \/ Repr
    \/ Copy
    \/ \E data \in Inputs(cls) : Validate(data)
    \/ \E data \in Inputs(cls) : Set(data)
    \/ \E a \in Assignments(cls) : Assign(a[1], a[2])
    \/ \E flag \in DOMAIN ShiftConfig : SetDefaultConfig(flag)
    \/ \E typ \in {IntT} : DeregisterShiftType(typ)
    \/ \E reg \in Registrations(cls) : RegisterShiftType(reg[1], reg[2])
    \/ \E typ \in Lookups : GetShiftType(typ)
    \/ Reset

Spec == Init /\ [][Next]_vars


\* ----------------------------------------------------------------- claims

\* C1: two consecutive serialize() calls on a successfully constructed
\* instance, the first one made right after the construction and no
\* assignment in between, both succeed and return equal dictionaries.
C1_SerializeTwice ==
    (last.op = "serialize" /\ prev.op = "serialize" /\ prev.fresh)
        => (prev.st = "ok" /\ last.st = "ok" /\ PyEq(last.res, prev.res))

\* C2: __repr__() and serialize() are read-only: the instance the call
\* leaves, every attribute with every element, is the instance it found.
C2_ReadOnly ==
    last.op \in {"repr", "serialize"} => last.after = last.before

\* C3: round trip: copy.copy(x), which is type(x)(**x.serialize()), of a
\* just constructed instance x succeeds, and the copy equals x.
C3_RoundTrip ==
    (last.op = "copy" /\ last.fresh)
        => (last.st = "ok" /\ last.eq.st = "ok" /\ last.eq.res)


\* The configuration the class of a call runs under, and what the claims
\* call an invalid field.  The latter is stated from the declarations of the
\* classes alone, not from what the handlers do.
EffectiveConfig == IF config.set THEN config.cfg ELSE default_shift_config

\* the type handlers are the ones StarShift registers itself: no
\* deregister_shift_type since the start or the last reset
StockHandlers == shift_types = shift_builtin_types

Phases == <<"transform", "validation", "set">>

\* the fields of class c in the order the processes take them up: the
\* annotated ones, then the other class attributes that are data
FieldNames(c) ==
    LET decl == Classes(config)[c]
        IsAnnotated(name) ==
            \E j \in 1..Len(decl.annotations) : decl.annotations[j].name = name
        others == SelectSeq(decl.dict, LAMBDA at :
                      ~IsAnnotated(at.s) /\ ~IsMagicName(at.s) /\ ~IsCallable(at.e[1]))
    IN  [j \in 1..Len(decl.annotations) |-> decl.annotations[j].name]
            \o [j \in 1..Len(others) |-> others[j].s]

\* the entries <<process, c, field>> of a call's trace that are of the
\* class of the call itself, not of a nested record
TopLog(call) ==
    SelectSeq(call.log, LAMBDA en : en[2] = call.c /\ \E j \in 1..3 : en[1] = Phases[j])

\* the trace of phase p over all the fields of class c
PhaseLog(c, p) == [j \in 1..Len(FieldNames(c)) |-> <<p, c, FieldNames(c)[j]>>]

IsPrefix(a, b) == Len(a) <= Len(b) /\ a = SubSeq(b, 1, Len(a))

\* what a call passes for a field: the argument, else the class default,
\* else Missing
Passed(call, name) ==
    IF DictHas(call.data, name) THEN DictGet(call.data, name)
    ELSE ClassAttr(Classes(config)[call.c], name)

IsInt(v) == v.k \in {"int", "bool"}

\* the classes whose invalid fields are stated below
Judged == {<<"P">>, <<"H">>, <<"N">>}

\* The fields of a call that are invalid in phase p.
\*   P: a: int, b: str, c: Optional[int] are checked by the transform phase.
\*   H: b: int is checked by the transform phase; a: int skips its type
\*      transformer (keep is a skipping pre-transformer) and is checked by
\*      the validation phase.
\*   N: b: B, c: B must be a B or a dict in the transform phase; the set
\*      phase builds B(**dict), which fails for {"v": "s"}.
Invalid(call, p) ==
    LET val(name) == Passed(call, <<name>>)
        Those(names, Bad(_)) == {<<name>> : name \in {n \in names : Bad(n)}}
    IN  CASE call.c = <<"P">> /\ p = "transform" ->
                Those({"a"}, LAMBDA n : ~IsInt(val(n)))
                \union Those({"b"}, LAMBDA n : val(n).k # "str")
                \union Those({"c"}, LAMBDA n : ~IsInt(val(n)) /\ val(n) # NoneV)
          [] call.c = <<"H">> /\ p = "transform" ->
                Those({"b"}, LAMBDA n : ~IsInt(val(n)))
          [] call.c = <<"H">> /\ p = "validation" ->
                Those({"a"}, LAMBDA n : ~IsInt(val(n)))
          [] call.c = <<"N">> /\ p = "transform" ->
                Those({"b", "c"}, LAMBDA n : val(n).k \notin {"dict", "ShiftModel"})
          [] call.c = <<"N">> /\ p = "set" ->
                Those({"b", "c"}, LAMBDA n : val(n) = BadB)
          [] OTHER -> {}

\* the first phase of a call that has an invalid field
HasInvalid(call) == \E j \in 1..3 : Invalid(call, Phases[j]) # {}
FirstBadPhase(call) ==
    Phases[CHOOSE j \in 1..3 :
        /\ Invalid(call, Phases[j]) # {}
        /\ \A k \in 1..(j - 1) : Invalid(call, Phases[k]) = {}]

\* the fields of class c up to and including the first one in bad
UpToFirst(c, bad) ==
    SubSeq(FieldNames(c), 1,
           CHOOSE j \in 1..Len(FieldNames(c)) :
               /\ FieldNames(c)[j] \in bad
               /\ \A k \in 1..(j - 1) : FieldNames(c)[k] \notin bad)

\* the fields a call took up in phase p
TakenUp(call, p) ==
    LET of_p == SelectSeq(TopLog(call), LAMBDA en : en[1] = p)
    IN  [j \in 1..Len(of_p) |-> of_p[j][3]]

\* C4: when k >= 1 fields are invalid in the same phase, then with
\* fail_fast=False every field of the phase is processed and a
\* ShiftModelError of the phase is raised with exactly k field errors, one
\* per invalid field; with fail_fast=True the first invalid field's error
\* alone is raised and no later field is processed.
C4_FailFast ==
    (last.op = "init" /\ last.c \in Judged /\ HasInvalid(last) /\ StockHandlers) =>
        LET p   == FirstBadPhase(last)
            bad == Invalid(last, p)
        IN  IF ~EffectiveConfig.fail_fast
            THEN /\ last.st = "ShiftModelError"
                 /\ last.err.name = last.c /\ last.err.process = p
                 /\ Len(last.err.errors) = Cardinality(bad)
                 /\ p # "set" =>
                        [j \in 1..Len(last.err.errors) |-> last.err.errors[j].name]
                            = SelectSeq(FieldNames(last.c), LAMBDA n : n \in bad)
                 /\ TakenUp(last, p) = FieldNames(last.c)
            ELSE /\ last.st = "ShiftFieldError"
                 /\ p # "set" => last.err.name = UpToFirst(last.c, bad)[Len(UpToFirst(last.c, bad))]
                 /\ TakenUp(last, p) = UpToFirst(last.c, bad)

\* a construction of P with fail_fast=True and two or more invalid fields
\* stopped at the first of them
C4_Witness ==
    /\ last.op = "init" /\ last.c = <<"P">> /\ EffectiveConfig.fail_fast
    /\ Cardinality(Invalid(last, "transform")) >= 2
    /\ last.st = "ShiftFieldError"
    /\ Len(TakenUp(last, "transform")) < Len(FieldNames(last.c))

\* C5: with do_processing=True a construction runs transform, validate, set
\* in this order, each over all fields before the next begins; a phase that
\* accumulated errors raises a ShiftModelError naming it and no later phase
\* runs; a construction that did not reach the set phase assigned no
\* attribute.  S, whose nested constructions write the same trace entries
\* as the construction itself, is left to C20.
C5_PhaseOrder ==
    (last.op = "init" /\ EffectiveConfig.do_processing /\ last.c # <<"S">>) =>
        LET top  == TopLog(last)
            Tr   == PhaseLog(last.c, "transform")
            Va   == PhaseLog(last.c, "validation")
            Se   == PhaseLog(last.c, "set")
            Through(p) == CASE p = "transform" -> Tr
                            [] p = "validation" -> Tr \o Va
                            [] p = "set" -> Tr \o Va \o Se
        IN  /\ IsPrefix(top, Tr \o Va \o Se)
            /\ last.st = "ok" => top = Tr \o Va \o Se
            /\ (last.st = "ShiftModelError" /\ last.err.name = last.c) =>
                    /\ \E j \in 1..3 : last.err.process = Phases[j]
                    /\ last.err.errors # <<>>
                    /\ top = Through(last.err.process)
            /\ (last.c \in Judged /\ HasInvalid(last) /\ ~EffectiveConfig.fail_fast
                    /\ StockHandlers) =>
                    /\ last.st = "ShiftModelError"
                    /\ last.err.process = FirstBadPhase(last)
            /\ (\A j \in 1..Len(top) : top[j][1] # "set") => last.after.e = <<>>

\* a construction whose validation phase accumulated an error: it raised
\* and assigned nothing
C5_Witness ==
    /\ last.op = "init" /\ EffectiveConfig.do_processing
    /\ last.st = "ShiftModelError" /\ last.err.process = "validation"
    /\ TopLog(last) = PhaseLog(last.c, "transform") \o PhaseLog(last.c, "validation")
    /\ last.after.e = <<>>


\* the attribute name of the instance a call left, or Missing
AttrOf(obj, name) ==
    IF \E j \in 1..Len(obj.e) : obj.e[j].s = name
    THEN obj.e[CHOOSE j \in 1..Len(obj.e) : obj.e[j].s = name].e[1]
    ELSE Missing

\* U declares u: Union[int, str], W declares w: Union[list[int], str]: the
\* values some member type of the union accepts
UnionAccepts(c, v) ==
    CASE c = <<"U">> -> IsInt(v) \/ v.k = "str"
      [] c = <<"W">> ->
            \/ v.k = "list" /\ \A j \in 1..Len(v.e) : IsInt(v.e[j])
            \/ v.k = "str"

\* C6: a Union field accepts a value when a member type accepts it, and
\* rejects it exactly when no member type does.
C6_Union ==
    \A c \in {<<"U">>, <<"W">>} :
        (last.op = "init" /\ last.c = c) =>
            LET name == FieldNames(c)[1]
            IN  IF UnionAccepts(c, Passed(last, name))
                THEN last.st = "ok" /\ AttrOf(last.after, name) = Passed(last, name)
                ELSE /\ last.st = "ShiftModelError"
                     /\ last.err.process = "transform"
                     /\ last.after.e = <<>>

\* the elements an iteration over v yields, and whether v can be iterated
Elements(v) ==
    CASE v.k \in {"tuple", "list"} -> v.e
      [] v.k = "dict" -> [j \in 1..Len(v.e) |-> v.e[j].e[1]]
      [] v.k = "str" -> [j \in 1..Len(v.s) |-> StrV(<<v.s[j]>>)]
      [] OTHER -> <<>>

\* T declares t: tuple[str, int]: the values whose elements are exactly a
\* str and an int, in this order
TupleAccepts(v) ==
    /\ v.k \in {"tuple", "list", "dict", "str"}
    /\ Len(Elements(v)) = 2
    /\ Elements(v)[1].k = "str"
    /\ IsInt(Elements(v)[2])

\* C7: a tuple field with n type arguments accepts a value exactly when the
\* value has exactly n elements and the element at each position i is of
\* the i-th type argument; every other value is rejected with an error, by
\* the transform phase, and nothing is assigned.
C7_Tuple ==
    (last.op = "init" /\ last.c = <<"T">> /\ StockHandlers) =>
        IF TupleAccepts(Passed(last, <<"t">>))
        THEN /\ last.st = "ok"
             /\ Elements(AttrOf(last.after, <<"t">>)) = Elements(Passed(last, <<"t">>))
        ELSE /\ last.st = "ShiftModelError"
             /\ last.err.process = "transform"
             /\ Len(last.err.errors) = 1 /\ last.err.errors[1].name = <<"t">>
             /\ last.after.e = <<>>

\* a tuple of three elements was passed for tuple[str, int] and rejected
C7_Witness ==
    /\ last.op = "init" /\ last.c = <<"T">>
    /\ Passed(last, <<"t">>).k = "tuple" /\ Len(Passed(last, <<"t">>).e) = 3
    /\ last.st = "ShiftModelError"


\* C8: serialize() on an instance of a class without custom serializers
\* (P, R) whose declared fields are all set: the result has the key of a
\* field exactly when the field is not private or
\* include_private_fields_in_serialization is on, and its value differs
\* from the declared default or include_default_fields_in_serialization is
\* on; the key then maps to the field's current value.
C8_SerializedKeys ==
    \A c \in {<<"P">>, <<"R">>} :
        (/\ last.op = "serialize" /\ last.c = c
         /\ \A j \in 1..Len(FieldNames(c)) : AttrOf(last.before, FieldNames(c)[j]) # Missing)
        => /\ last.st = "ok"
           /\ \A j \in 1..Len(FieldNames(c)) :
                LET name == FieldNames(c)[j]
                    cur  == AttrOf(last.before, name)
                    dflt == ClassAttr(Classes(config)[c], name)
                    shown ==
                        /\ \/ ~IsPrivateName(name)
                           \/ EffectiveConfig.include_private_fields_in_serialization
                        /\ \/ ~PyEq(cur, dflt)
                           \/ EffectiveConfig.include_default_fields_in_serialization
                IN  /\ DictHas(last.res, name) <=> shown
                    /\ DictHas(last.res, name) => DictGet(last.res, name) = cur


\* C9: R declares the private field _p: int.  A construction that passes a
\* value for _p raises and assigns nothing when allow_private_field_setting
\* is off, whether the class is instantiated for the first time or its
\* information is cached; when it is on, the value is accepted and assigned.
C9_PrivateSetting ==
    (last.op = "init" /\ last.c = <<"R">> /\ DictHas(last.data, <<"_", "p">>)
        /\ StockHandlers) =>
        IF ~EffectiveConfig.allow_private_field_setting
        THEN /\ last.st = "ShiftFieldError"
             /\ last.err.name = <<"R">>
             /\ last.after.e = <<>>
             /\ last.log = <<>>
        ELSE (EffectiveConfig.do_processing /\ IsInt(Passed(last, <<"q">>))) =>
                /\ last.st = "ok"
                /\ AttrOf(last.after, <<"_", "p">>) = DictGet(last.data, <<"_", "p">>)

\* a value for _p was passed to a class whose information was cached, and
\* the construction raised
C9_Witness ==
    /\ last.op = "init" /\ last.c = <<"R">> /\ DictHas(last.data, <<"_", "p">>)
    /\ ~last.first
    /\ ~EffectiveConfig.allow_private_field_setting
    /\ last.st = "ShiftFieldError"


\* the names a call passed to resolve_forward_ref, in the order of the calls
ResolverCalls(call) ==
    LET rs == SelectSeq(call.log, LAMBDA en : en[1] = "resolve_forward_ref")
    IN  [j \in 1..Len(rs) |-> rs[j][3]]

\* C10: forward-reference resolution is cached: a construction, which
\* clears no cache, invokes resolve_forward_ref at most once for a name,
\* however many fields are declared with it.
C10_ResolvedOnce ==
    last.op = "init" =>
        \A i, j \in 1..Len(ResolverCalls(last)) :
            ResolverCalls(last)[i] = ResolverCalls(last)[j] => i = j


\* C11: N declares b: B and c: B.  When the construction of a nested B from
\* a dict fails in the set phase, the outer error names the outer field:
\* every field error of the ShiftModelError, and the error raised under
\* fail_fast, is a ShiftFieldError whose field_name is a field of N that
\* failed.
C11_NestedError ==
    (/\ last.op = "init" /\ last.c = <<"N">>
     /\ Invalid(last, "transform") = {} /\ Invalid(last, "set") # {})
    => IF EffectiveConfig.fail_fast
       THEN /\ last.st = "ShiftFieldError"
            /\ last.err.name \in Invalid(last, "set")
       ELSE /\ last.st = "ShiftModelError" /\ last.err.process = "set"
            /\ \A j \in 1..Len(last.err.errors) :
                    /\ last.err.errors[j].type = "ShiftFieldError"
                    /\ last.err.errors[j].name \in Invalid(last, "set")


\* the field of N that the entry at position j of a call's trace belongs
\* to: the last <<process, N, field>> before it
Owner(call, j) ==
    LET Own(k) == call.log[k][2] = call.c /\ \E p \in 1..3 : call.log[k][1] = Phases[p]
    IN  call.log[CHOOSE k \in 1..j : Own(k) /\ \A m \in (k + 1)..j : ~Own(m)]

\* the positions of a call's trace where the construction of a nested B
\* begins: B has the one field v, which the transform phase takes up first
NestedStarts(call) ==
    {j \in 1..Len(call.log) : call.log[j] = <<"transform", <<"B">>, <<"v">>>>}

\* C12: N declares b: B and c: B.  A construction of N constructs no B in
\* the transform and validate phases; for a field that was passed a dict it
\* constructs B exactly once, in the set phase of that field; for a field
\* that was passed an instance of B it constructs nothing, and a successful
\* construction leaves that instance as the attribute.
C12_NestedOnce ==
    (last.op = "init" /\ last.c = <<"N">>) =>
        /\ (\A i \in 1..Len(FieldNames(last.c)) :
                Passed(last, FieldNames(last.c)[i]).k \in {"dict", "ShiftModel"})
            => IsPrefix(PhaseLog(last.c, "transform") \o PhaseLog(last.c, "validation")
                            \o <<<<"set", last.c, FieldNames(last.c)[1]>>>>,
                        TopLog(last))
        /\ \A j \in NestedStarts(last) :
                /\ Owner(last, j)[1] = "set"
                /\ Passed(last, Owner(last, j)[3]).k = "dict"
        /\ \A i \in 1..Len(FieldNames(last.c)) :
                LET name  == FieldNames(last.c)[i]
                    built == {j \in NestedStarts(last) : Owner(last, j)[3] = name}
                IN  /\ Cardinality(built) <= 1
                    /\ (Passed(last, name).k = "dict"
                        /\ \E j \in 1..Len(last.log) : last.log[j] = <<"set", last.c, name>>)
                            => Cardinality(built) = 1
                    /\ Passed(last, name).k = "ShiftModel" =>
                            /\ built = {}
                            /\ last.st = "ok" => AttrOf(last.after, name) = Passed(last, name)

\* a construction of N that was passed a dict for b and an instance for c
\* succeeded, having constructed one B
C12_Witness ==
    /\ last.op = "init" /\ last.c = <<"N">> /\ last.st = "ok"
    /\ Passed(last, <<"b">>).k = "dict" /\ Passed(last, <<"c">>).k = "ShiftModel"
    /\ Cardinality(NestedStarts(last)) = 1


\* val is an instance of the record class c
IsInstanceOf(val, c) == val.k = "ShiftModel" /\ val.s = c

\* C13: M declares m: U.  A construction of M succeeds only if the value
\* passed for m is an instance of U or a dict, and a successful construction
\* leaves an instance of U as the attribute m.
C13_NestedType ==
    (last.op = "init" /\ last.c = <<"M">> /\ last.st = "ok") =>
        /\ IsInstanceOf(Passed(last, <<"m">>), <<"U">>) \/ Passed(last, <<"m">>).k = "dict"
        /\ IsInstanceOf(AttrOf(last.after, <<"m">>), <<"U">>)


\* C14: validate(**kwargs) on a constructed instance leaves every attribute
\* of the instance unchanged, whether it returns True or raises.
C14_ValidateReadOnly ==
    last.op = "validate" =>
        /\ last.after = last.before
        /\ inst = last.before

\* validate(**kwargs) raised ShiftModelError for invalid kwargs on an
\* instance that has attributes
C14_Witness ==
    /\ last.op = "validate" /\ last.st = "ShiftModelError"
    /\ last.err.process = "validation"
    /\ last.before.e # <<>> /\ last.after = last.before


\* C15: the config of a cached model info is a copy.  Once the model info of
\* a class is cached, an instantiation, repr() or serialize() of the class
\* works with the cached config, whatever flags of DEFAULT_SHIFT_CONFIG were
\* changed since, and no call, a change of DEFAULT_SHIFT_CONFIG included,
\* changes the cached config; reset_starshift_globals, which empties the
\* cache, aside.
C15_CachedConfig ==
    (last.cached # <<>> /\ last.op # "reset") =>
        /\ last.c \in DOMAIN shift_info_registry
        /\ <<shift_info_registry[last.c].shift_config>> = last.cached
        /\ last.op \in {"init", "repr", "serialize"} => last.used = last.cached

\* a class without a config of its own, cached under the initial default
\* config, is instantiated, shown or serialized after a flag of
\* DEFAULT_SHIFT_CONFIG was changed
C15_Witness ==
    /\ last.op \in {"init", "serialize"} /\ prev.op = "config"
    /\ ~config.set /\ Classes(config)[last.c].flags = <<>>
    /\ Changed
    /\ last.cached = <<ShiftConfig>>
    /\ last.st = "ok"


\* the field descriptors get_fields builds for class c, as _shift_info_registry
\* keeps them (the configs of the model refuse no field when data is empty)
Template(c) ==
    LET built == get_fields(Classes(config)[c], DictV(<<>>), ShiftConfig).fields
    IN  [j \in 1..Len(built) |-> [built[j] EXCEPT !.val = Missing]]

\* C16: the field descriptors _shift_info_registry holds for a class are
\* never modified by an instantiation or a phase run, the first
\* instantiation included: they stay as get_fields built them, a type that
\* a run resolved never showing in them.
C16_CachedFields ==
    \A c \in DOMAIN shift_info_registry : shift_info_registry[c].fields = Template(c)


\* C17: reset_starshift_globals() leaves the type registry equal to the
\* builtin registry, the forward-ref cache, the model-info cache and the
\* cache of hook arities empty, and every flag of DEFAULT_SHIFT_CONFIG at
\* its initial value, whatever was registered, deregistered, instantiated or
\* changed before.
C17_Reset ==
    last.op = "reset" =>
        /\ shift_types = shift_builtin_types
        /\ resolved_forward_refs = EmptyMap
        /\ shift_info_registry = EmptyMap
        /\ shift_functions = EmptyMap
        /\ default_shift_config = ShiftConfig


\* C18: a ShiftField with default_skips=True (A.val, default 5, ge=10): when
\* no value is supplied the field takes its default without validation, and
\* a supplied value that violates the constraint is rejected.
C18_DefaultSkips ==
    (last.op = "init" /\ last.c = <<"A">>) =>
        IF ~DictHas(last.data, <<"val">>)
        THEN /\ last.st = "ok"
             /\ AttrOf(last.after, <<"val">>) = ShiftFields[<<"A", "val">>].default
        ELSE (~IsInt(DictGet(last.data, <<"val">>))
              \/ Less(DictGet(last.data, <<"val">>), ShiftFields[<<"A", "val">>].ge))
             => last.st # "ok"


\* C19: a ShiftField with a custom validator and validator_skips=True (V.val,
\* type int, the validator accept returns True for every value): a supplied
\* value is accepted and assigned whether or not it is an int.
C19_ValidatorSkips ==
    (last.op = "init" /\ last.c = <<"V">> /\ DictHas(last.data, <<"val">>)) =>
        /\ last.st = "ok"
        /\ AttrOf(last.after, <<"val">>) = DictGet(last.data, <<"val">>)


\* how deep the dicts of v are nested: 0 for anything but a dict
RECURSIVE Depth(_)
Depth(v) ==
    IF v.k # "dict" THEN 0
    ELSE LET ds == {Depth(v.e[j].e[2]) : j \in 1..Len(v.e)}
         IN  1 + (IF ds = {} THEN 0 ELSE CHOOSE d \in ds : \A o \in ds : o <= d)

\* the constructions of an S a call ran, one inside the other: each takes up
\* its one field nest in the transform phase
Constructions(call) ==
    Len(SelectSeq(call.log, LAMBDA en : en = <<"transform", <<"S">>, <<"nest">>>>))

\* C20: S declares nest as its own type, without default and not Optional:
\* every construction of an S is rejected with an error, and it ends after at
\* most as many nested constructions as the keyword arguments are deep.
C20_SelfReference ==
    (last.op = "init" /\ last.c = <<"S">>) =>
        /\ last.st # "ok"
        /\ Constructions(last) <= Depth(last.data)


\* ---- hooks: what the decorators of the class bodies declare

\* the functions of class c decorated as kind ("transformer", "validator",
\* "setter", "repr", "serializer") for the field name, pre or not
HooksOf(c, kind, pre, name) ==
    {at.e[1].s : at \in {Classes(config)[c].dict[j] : j \in 1..Len(Classes(config)[c].dict)}}
    \cap {fn \in DOMAIN Functions :
            /\ Functions[fn].kind = kind /\ Functions[fn].pre = pre
            /\ \E i \in 1..Len(Functions[fn].for) : Functions[fn].for[i] = name}

\* the trace entry of a call of function fn of the program
CallOf(fn) ==
    <<"call", fn, <<IF Functions[fn].params = 3 THEN "advanced" ELSE "simple">>>>

\* what a process of a call did for one field: the calls of functions and of
\* the type function between the entry <<p, c, name>> and the next field
Invocations(call, p, name) ==
    LET log   == call.log
        IsField(j) == \E k \in 1..3 : log[j][1] = Phases[k]
        start == CHOOSE j \in 1..Len(log) : log[j] = <<p, call.c, name>>
        stop  == IF \E j \in (start + 1)..Len(log) : IsField(j)
                 THEN CHOOSE j \in (start + 1)..Len(log) :
                          IsField(j) /\ \A k \in (start + 1)..(j - 1) : ~IsField(k)
                 ELSE Len(log) + 1
    IN  SelectSeq(SubSeq(log, start + 1, stop - 1), LAMBDA en : en[1] # "signature")

Took(call, p, name) == \E j \in 1..Len(call.log) : call.log[j] = <<p, call.c, name>>

\* the fields the errors of a call name
ErrorNames(call) ==
    IF call.st = "ShiftModelError"
    THEN {call.err.errors[j].name : j \in 1..Len(call.err.errors)}
    ELSE IF call.st = "ShiftFieldError" THEN {call.err.name} ELSE {}

\* the classes with pre-functions and no nested record
PreHooked == {<<"K">>, <<"Q">>, <<"H">>}

\* C21: in the transform and the validation phase a field with a skipping
\* pre-function gets the call of the pre-function and nothing else, neither
\* the type function nor the post-function, and the result of the
\* pre-function is the result of the field: the value the construction
\* assigns, or whether the field is valid.  A field with a pre-function that
\* does not skip gets the pre-function, then the type function, then the
\* post-function, in this order; all of them when the construction succeeds.
\* The type functions are those of the stock handlers.
C21_PreHooks ==
    (last.op = "init" /\ last.c \in PreHooked /\ StockHandlers) =>
        \A j \in 1..2 : \A i \in 1..Len(FieldNames(last.c)) :
            LET p    == Phases[j]
                kind == IF p = "transform" THEN "transformer" ELSE "validator"
                type_function == IF p = "transform" THEN "shift_type_transformer"
                                 ELSE "shift_type_validator"
                name == FieldNames(last.c)[i]
                pres == HooksOf(last.c, kind, TRUE, name)
                posts == HooksOf(last.c, kind, FALSE, name)
                pre  == CHOOSE fn \in pres : TRUE
                done == Invocations(last, p, name)
                full == <<CallOf(pre), <<type_function, last.c, name>>>>
                        \o (IF posts = {} THEN <<>> ELSE <<CallOf(CHOOSE fn \in posts : TRUE)>>)
                res  == FunctionResult(Functions[pre], Passed(last, name))
            IN  (pres # {} /\ Took(last, p, name)) =>
                    IF Functions[pre].skip
                    THEN /\ done = <<CallOf(pre)>>
                         /\ (p = "transform" /\ last.st = "ok") =>
                                AttrOf(last.after, name) = res
                         /\ (p = "validation" /\ last.st \in ShiftErrors) =>
                                (name \in ErrorNames(last) => ~Truthy(res))
                         /\ (p = "validation" /\ ~Truthy(res)) =>
                                /\ last.st \in ShiftErrors
                                /\ ~EffectiveConfig.fail_fast => name \in ErrorNames(last)
                    ELSE /\ done # <<>> /\ IsPrefix(done, full)
                         /\ last.st = "ok" => done = full

\* Q(c=0) was constructed: the skipping pre-validator of c returned False,
\* which made c invalid
C21_Witness ==
    /\ last.op = "init" /\ last.c = <<"Q">>
    /\ Passed(last, <<"c">>) = IntV(0)
    /\ Took(last, "validation", <<"c">>)
    /\ Invocations(last, "validation", <<"c">>) = <<CallOf(<<"vskip_c">>)>>
    /\ last.st = "ShiftModelError" /\ <<"c">> \in ErrorNames(last)


\* the handler the ordered rules of get_shift_type name for typ: the one
\* registered under typ; under the generic origin of a parameterized typ; the
\* ForwardRef handler for a ForwardRef; the ShiftModel handler for a record
\* subclass; the one registered under type(typ); otherwise None
FirstMatchingRule(typ, types) ==
    IF Hashable(typ) /\ typ \in DOMAIN types THEN S(types[typ])
    ELSE IF typ.a # <<>> /\ Plain(typ.t) \in DOMAIN types THEN S(types[Plain(typ.t)])
    ELSE IF typ.t = "ForwardRef" /\ typ.c # <<>> /\ Plain("ForwardRef") \in DOMAIN types
         THEN S(types[Plain("ForwardRef")])
    ELSE IF typ.t = "ShiftModel" /\ typ.c # <<>> /\ Plain("ShiftModel") \in DOMAIN types
         THEN S(types[Plain("ShiftModel")])
    ELSE IF TypeOfType(typ) \in DOMAIN types THEN S(types[TypeOfType(typ)])
    ELSE NoneV

\* C22: get_shift_type(t) returns the handler of the first matching rule, in
\* the order exact key, generic origin, ForwardRef, record subclass, type(t),
\* and None when no rule matches.
C22_RuleOrder ==
    last.op = "get_shift_type"
        => (last.st = "ok" /\ last.res = FirstMatchingRule(last.typ, shift_types))

\* C22 for the arguments that can be hashed, while None is no registry key:
\* there the rule order holds
C22_HashableRuleOrder ==
    (last.op = "get_shift_type" /\ Hashable(last.typ)
        /\ Plain("None") \notin DOMAIN shift_types)
        => (last.st = "ok" /\ last.res = FirstMatchingRule(last.typ, shift_types))

\* list[int] resolved to the container handler, and B, registered under its
\* own key, to that handler instead of the nested-record handler
C22_Resolved ==
    /\ last.op = "get_shift_type" /\ last.st = "ok"
    /\ \/ last.typ = ListOf(StrT) /\ last.res = S("all_of_single_shift_type")
       \/ last.typ = ModelT(<<"B">>) /\ last.res = S("base_shift_type")

\* get_shift_type([int]) raised TypeError
C22_Unhashable ==
    last.op = "get_shift_type" /\ last.typ = ObjectT("list") /\ last.st = "TypeError"

\* with a handler registered under None, the record subclass M resolved to it
C22_NoneKey ==
    /\ last.op = "get_shift_type" /\ last.typ = ModelT(<<"M">>)
    /\ Plain("None") \in DOMAIN shift_types /\ last.res = S("any_shift_type")


\* the inspections and the calls of the functions of the classes in the
\* trace of a call, in order
WrapperLog(call) == SelectSeq(call.log, LAMBDA e : e[1] \in {"signature", "call"})

\* how shift_function_wrapper calls a function of that many parameters
Classified(def) == <<IF def.params = 3 THEN "advanced" ELSE "simple">>

\* C23: the signature of a function of two or three parameters is inspected
\* only when it is not in _shift_functions, and then it is cached and called;
\* every call passes (instance, value) to a function of two parameters and
\* (instance, field, info) to one of three, and follows an inspection or a
\* cached classification; a function of another number of parameters makes
\* the call raise, is not called and is not cached.
C23_ArityCache ==
    LET log == WrapperLog(last)
    IN  \A i \in DOMAIN log :
            LET func == log[i][2]
                def == Functions[func]
                inspected == \/ func \in DOMAIN last.funcs
                             \/ \E j \in 1..(i - 1) : log[j] = <<"signature", func, <<>>>>
            IN  /\ (log[i][1] = "signature" /\ def.params \in {2, 3})
                        => /\ ~inspected
                           /\ i < Len(log)
                           /\ log[i + 1] = <<"call", func, Classified(def)>>
                /\ (log[i][1] = "signature" /\ def.params \notin {2, 3})
                        => /\ last.st # "ok"
                           /\ \A j \in DOMAIN log : ~(log[j][1] = "call" /\ log[j][2] = func)
                           /\ func \notin DOMAIN shift_functions
                /\ log[i][1] = "call"
                        => /\ def.params \in {2, 3}
                           /\ log[i][3] = Classified(def)
                           /\ inspected
                           /\ func \in DOMAIN shift_functions
                           /\ shift_functions[func] = (def.params = 3)

\* a later K(...) called post_b, cached as advanced, without inspecting it
C23_Witness ==
    /\ last.op = "init" /\ last.c = <<"K">>
    /\ <<"post_b">> \in DOMAIN last.funcs
    /\ \E i \in DOMAIN last.log : last.log[i] = <<"call", <<"post_b">>, <<"advanced">>>>
    /\ \A i \in DOMAIN last.log : last.log[i][1] # "signature"

\* J(a=1) inspected wide, of four parameters, and raised
C23_Rejected ==
    /\ last.op = "init" /\ last.c = <<"J">> /\ last.st # "ok"
    /\ \E i \in DOMAIN last.log : last.log[i] = <<"signature", <<"wide">>, <<>>>>
    /\ <<"wide">> \notin DOMAIN shift_functions


\* the constraints of ShiftField.validate, in the order it checks them
ConstraintNames ==
    <<"ge", "eq", "le", "gt", "ne", "lt", "min_len", "max_len", "pattern", "check",
      "validator">>

\* the constraint a message of ShiftField.validate speaks of
ConstraintOf(msg) ==
    CASE msg \in {"Must be >= ge", "ge was set, but val could not be compared to ge"} -> "ge"
      [] msg \in {"Must be == eq", "eq was set, but val could not be compared to eq"} -> "eq"
      [] msg \in {"Must be <= le", "le was set, but val could not be compared to le"} -> "le"
      [] msg \in {"Must be > gt", "gt was set, but val could not be compared to gt"} -> "gt"
      [] msg \in {"Must be != ne", "ne was set, but val could not be compared to ne"} -> "ne"
      [] msg \in {"Must be < lt", "lt was set, but val could not be compared to lt"} -> "lt"
      [] msg \in {"len(val) must be > min_len",
                  "min_len was set, but len(val) could not be compared to min_len"} -> "min_len"
      [] msg \in {"len(val) must be < max_len",
                  "max_len was set, but len(val) could not be compared to max_len"} -> "max_len"
      [] msg \in {"str(val) must match the pattern",
                  "pattern was set, but str(val) could not be compared to pattern"} -> "pattern"
      [] msg \in {"val failed custom check", "Check raised"} -> "check"
      [] msg \in {"val failed custom validator", "ShiftValidator raised"} -> "validator"

\* the classes with one ShiftField that is validated, and that field
Constrained == (<<"Z">> :> <<"val">>) @@ (<<"O">> :> <<"xs">>)

\* whether val fails constraint con of the ShiftField of class c, read off the
\* class bodies: Z.val has ge=2, eq=4, le=5, gt=2, ne=3, lt=5, pattern="4",
\* check=even and validator=small (val != 0), O.xs has min_len=0 and
\* max_len=2, both bounds exclusive; h is twice the number val
Fails(c, con, val) ==
    LET num == val.k \in {"int", "bool", "float"}
        h   == 2 * val.n + (IF val.k = "float" THEN 1 ELSE 0)
    IN  IF c = <<"Z">>
        THEN CASE con = "ge" -> ~num \/ h < 4
               [] con = "eq" -> ~num \/ h # 8
               [] con = "le" -> ~num \/ h > 10
               [] con = "gt" -> ~num \/ h <= 4
               [] con = "ne" -> num /\ h = 6
               [] con = "lt" -> ~num \/ h >= 10
               [] con = "pattern" -> ~(val.k \in {"int", "float"} /\ val.n \in {4} \union 40..49)
               [] con = "check" -> ~num \/ h % 4 # 0
               [] con = "validator" -> num /\ h = 0
               [] OTHER -> FALSE
        ELSE CASE con = "min_len" -> Len(val.e) <= 0
               [] con = "max_len" -> Len(val.e) >= 2
               [] OTHER -> FALSE

\* the constraints the error of a call names for the field, in order
Reported(call, name) ==
    IF call.st = "ShiftModelError" /\ Len(call.err.errors) = 1
           /\ call.err.errors[1].name = name
    THEN [i \in 1..Len(call.err.errors[1].msg) |-> ConstraintOf(call.err.errors[1].msg[i])]
    ELSE <<>>

\* C24: a ShiftField that reaches validation has every configured constraint
\* checked: the construction succeeds exactly when the value fails none, and
\* otherwise raises one error for the field that lists all the constraints
\* the value fails, also those after the first failing one.
C24_Constraints ==
    (last.op = "init" /\ last.c \in DOMAIN Constrained /\ StockHandlers
        /\ Took(last, "validation", Constrained[last.c]))
        => LET name == Constrained[last.c]
               failing == SelectSeq(ConstraintNames,
                              LAMBDA con : Fails(last.c, con, DictGet(last.data, name)))
           IN  /\ (last.st = "ok") = (failing = <<>>)
               /\ last.st # "ok"
                    => /\ last.st = "ShiftModelError" /\ last.err.process = "validation"
                       /\ Reported(last, name) = failing

\* Z(val=1) raised one error that lists ge, eq, gt, pattern and check
C24_Witness ==
    /\ last.op = "init" /\ last.c = <<"Z">> /\ Took(last, "validation", <<"val">>)
    /\ DictGet(last.data, <<"val">>) = IntV(1)
    /\ Reported(last, <<"val">>) = <<"ge", "eq", "gt", "pattern", "check">>

\* Z(val=4) was accepted
C24_Accepted ==
    /\ last.op = "init" /\ last.c = <<"Z">> /\ last.st = "ok"
    /\ AttrOf(last.after, <<"val">>) = IntV(4)


\* the fields of class c with a function of the kind
Hooked(c, kind) ==
    {name \in {FieldNames(c)[i] : i \in 1..Len(FieldNames(c))} :
        HooksOf(c, kind, FALSE, name) # {}}

\* how often an entry occurs in the trace of a call
Occurrences(call, entry) == Cardinality({i \in 1..Len(call.log) : call.log[i] = entry})

\* C25: for a field with a setter, repr or serializer function (E.a, and
\* E._p and E.d) the phase calls the function and not the type function; the
\* result of a repr or serializer function is in the output although the
\* field is private or holds its default; after the set phase the attribute
\* holds what the setter function assigned, the value plus one. A field
\* without such a function gets the type function.
C25_FieldFunctions ==
    /\ (last.op = "init" /\ last.c = <<"E">> /\ last.st = "ok")
         => /\ \A name \in Hooked(last.c, "setter") :
                 /\ Invocations(last, "set", name)
                        = <<CallOf(CHOOSE fn \in HooksOf(last.c, "setter", FALSE, name) : TRUE)>>
                 /\ AttrOf(last.after, name)
                        = Plus1(IF DictHas(last.data, name) THEN DictGet(last.data, name)
                                ELSE AttrOf([e |-> Classes(config)[last.c].dict], name))
            /\ \A name \in {<<"d">>} :
                 Invocations(last, "set", name) = <<<<"shift_type_setter", last.c, name>>>>
    /\ (last.op \in {"serialize", "repr"} /\ last.c = <<"E">> /\ last.st = "ok")
         => LET kind == IF last.op = "repr" THEN "repr" ELSE "serializer"
                type_function == IF last.op = "repr" THEN "shift_type_repr"
                                 ELSE "shift_type_serializer"
            IN  /\ \A name \in Hooked(last.c, kind) :
                     /\ Occurrences(last, <<type_function, last.c, name>>) = 0
                     /\ IF last.op = "repr"
                        THEN AttrOf(last.res.e[1], name)
                                = ReprV(Plus1(AttrOf(last.before, name)))
                        ELSE /\ DictHas(last.res, name)
                             /\ DictGet(last.res, name) = Plus1(AttrOf(last.before, name))
                /\ Occurrences(last, CallOf(CHOOSE fn \in HooksOf(last.c, kind, FALSE, <<"d">>) :
                                                TRUE))
                       = Cardinality(Hooked(last.c, kind))

\* E() was serialized: _p, private, and d, at its default, are in the result
\* with what dump returned
C25_Witness ==
    /\ last.op = "serialize" /\ last.c = <<"E">> /\ last.st = "ok"
    /\ AttrOf(last.before, <<"d">>) = IntV(5)
    /\ DictGet(last.res, <<"_", "p">>) = IntV(3) /\ DictGet(last.res, <<"d">>) = IntV(6)
    /\ ~last.used[1].include_private_fields_in_serialization
    /\ ~last.used[1].include_default_fields_in_serialization

\* E(a=3) left a == 4, assigned by set_a
C25_Assigned ==
    /\ last.op = "init" /\ last.c = <<"E">> /\ last.st = "ok"
    /\ DictHas(last.data, <<"a">>) /\ DictGet(last.data, <<"a">>) = IntV(3)
    /\ AttrOf(last.after, <<"a">>) = IntV(4)


\* the error a call raised for the field name
FieldError(call, name) ==
    IF call.st = "ShiftModelError"
    THEN call.err.errors[CHOOSE j \in 1..Len(call.err.errors) :
                             call.err.errors[j].name = name]
    ELSE call.err

\* what the functions of Q return, read off their bodies: the pre-validators
\* vpre_b and vskip_c return val != 0, and the type validator of int returns
\* False once never_shift_type is registered for int (the stock validator
\* returns True or raises)
PreValidatorFalse(call, name) ==
    name \in {<<"b">>, <<"c">>} /\ DictGet(call.data, name) = IntV(0)

TypeValidatorFalse(call, name) ==
    IntT \in DOMAIN shift_types /\ shift_types[IntT] = "never_shift_type"

\* C26: when the pre-validator or the type validator of a field returned
\* False, the post-validator of the field is not called and the field has the
\* error 'failed validation'; every call of a post-validator follows the call
\* of the type validator of the field, which did not return False.
C26_PostValidators ==
    (last.op = "init" /\ last.c = <<"Q">>)
        => \A i \in 1..Len(FieldNames(last.c)) :
             LET name == FieldNames(last.c)[i]
                 post == CallOf(CHOOSE fn \in HooksOf(last.c, "validator", FALSE, name) : TRUE)
                 typed == <<"shift_type_validator", last.c, name>>
                 calls == Invocations(last, "validation", name)
                 At(entry) == {j \in 1..Len(calls) : calls[j] = entry}
                 ran == typed \in {calls[j] : j \in 1..Len(calls)}
             IN  Took(last, "validation", name)
                   => /\ (PreValidatorFalse(last, name)
                            \/ (ran /\ TypeValidatorFalse(last, name)))
                         => /\ At(post) = {}
                            /\ name \in ErrorNames(last)
                            /\ FieldError(last, name).type = "ShiftFieldError"
                            /\ FieldError(last, name).msg = <<"failed validation">>
                      /\ At(post) # {}
                         => /\ ~TypeValidatorFalse(last, name)
                            /\ \A j \in At(post) : \E k \in At(typed) : k < j

\* Q(a=1, b=2, c=1) with never_shift_type registered for int: the type
\* validator of b returned False after vpre_b returned True, vpost_b was not
\* called and b has the error 'failed validation'
C26_Witness ==
    /\ last.op = "init" /\ last.c = <<"Q">> /\ TypeValidatorFalse(last, <<"b">>)
    /\ Took(last, "validation", <<"b">>)
    /\ DictGet(last.data, <<"b">>) = IntV(2)
    /\ Invocations(last, "validation", <<"b">>)
         = <<CallOf(<<"vpre_b">>), <<"shift_type_validator", <<"Q">>, <<"b">>>>,
             CallOf(<<"never">>)>>
    /\ <<"b">> \in ErrorNames(last)
    /\ FieldError(last, <<"b">>).msg = <<"failed validation">>

\* Q(..., b=2, ...) with the stock handlers called vpost_b after the type
\* validator
C26_Called ==
    /\ last.op = "init" /\ last.c = <<"Q">> /\ StockHandlers
    /\ Took(last, "validation", <<"b">>)
    /\ Invocations(last, "validation", <<"b">>)
         = <<CallOf(<<"vpre_b">>), <<"shift_type_validator", <<"Q">>, <<"b">>>>,
             CallOf(<<"vpost_b">>)>>


\* the default the class body declares for a field: the class attribute, or
\* the default of the ShiftField that is the class attribute; a private
\* field without class attribute has the default None; Missing when there
\* is none
DeclaredDefault(c, name) ==
    LET at == ClassAttr(Classes(config)[c], name)
    IN  IF IsShiftField(at) THEN get_default(ShiftFields[at.s])
        ELSE IF at = Missing /\ IsPrivateName(name) THEN NoneV
        ELSE at

\* the field is declared through a ShiftField
DeclaredByShiftField(c, name) == IsShiftField(ClassAttr(Classes(config)[c], name))

\* a value that is no container and no record: the stock setters assign it
\* as it is
IsScalar(val) == val.k \in {"int", "bool", "float", "str", "None"}

\* What set(**kwargs) did for the field name of its class, which has no
\* setter function: the set phase took the field up; when it is named in
\* kwargs and has no error, the attribute is the supplied value; when it is
\* not named and has a default, it has no error and the attribute is the
\* default; when it is not named and has no default, it has a set error.
SetField(call, name) ==
    /\ ~EffectiveConfig.fail_fast => Took(call, "set", name)
    /\ Took(call, "set", name) =>
          IF DictHas(call.data, name)
          THEN (name \notin ErrorNames(call) /\ IsScalar(DictGet(call.data, name)))
                   => AttrOf(call.after, name) = DictGet(call.data, name)
          ELSE IF DeclaredDefault(call.c, name) # Missing
               THEN /\ name \notin ErrorNames(call)
                    /\ \/ EffectiveConfig.fail_fast /\ call.st # "ok"
                       \/ AttrOf(call.after, name) = DeclaredDefault(call.c, name)
               ELSE name \in ErrorNames(call)

\* the type names a record class: the setter of such a field constructs a
\* record, which runs the three phases of that record's class
RECURSIVE HasRecordType(_)
HasRecordType(typ) ==
    \/ typ.t \in {"ShiftModel", "ForwardRef"}
    \/ \E j \in 1..Len(typ.a) : HasRecordType(typ.a[j])

\* the set(**kwargs) calls that reach the set phase, of the classes without
\* record fields: the others are refused with a ShiftFieldError for a
\* private name in kwargs
ReachedSet(call) ==
    /\ call.op = "set" /\ call.st \in {"ok", "ShiftModelError"}
    /\ \A j \in 1..Len(Classes(config)[call.c].annotations) :
           ~HasRecordType(Classes(config)[call.c].annotations[j].typ)

\* the trace of a set call has no transform and no validation phase of the
\* call's class, and the errors of the call are set errors
OnlySetPhase(call) ==
    /\ \A j \in 1..Len(TopLog(call)) : TopLog(call)[j][1] = "set"
    /\ call.st = "ShiftModelError" => call.err.process = "set"

\* C27: x.set(**kwargs) runs the set phase and no other phase of the class,
\* over every declared field: a field named in kwargs is assigned the
\* supplied value, a field not named in kwargs is assigned its declared
\* default, whatever it held, and has a set error when it has no default.
C27_SetOnly ==
    ReachedSet(last)
        => /\ OnlySetPhase(last)
           /\ \A i \in 1..Len(FieldNames(last.c)) :
                 FieldNames(last.c)[i] \notin Hooked(last.c, "setter")
                     => SetField(last, FieldNames(last.c)[i])

\* the type of the annotated field name of class c
DeclaredType(c, name) ==
    LET an == Classes(config)[c].annotations
    IN  an[CHOOSE j \in 1..Len(an) : an[j].name = name].typ

\* list, tuple or dict without type arguments
IsBareContainer(typ) == typ \in {Plain("list"), Plain("tuple"), Plain("dict")}

\* None, Optional[...] or a Union with None
TakesNone(typ) ==
    typ = NoneT \/ (typ.t = "Union" /\ \E j \in 1..Len(typ.a) : typ.a[j] = NoneT)

\* a field of set(**kwargs) whose setter gets Missing and takes it: it has
\* neither a value in kwargs nor a default, and its type is None, Optional
\* or a container without type arguments
MissingTaken(call, name) ==
    /\ ~DictHas(call.data, name) /\ DeclaredDefault(call.c, name) = Missing
    /\ \E j \in 1..Len(Classes(config)[call.c].annotations) :
           Classes(config)[call.c].annotations[j].name = name
    /\ TakesNone(DeclaredType(call.c, name)) \/ IsBareContainer(DeclaredType(call.c, name))

\* the same for the fields that are not declared through a ShiftField and
\* whose setter does not take Missing
C27_PlainSetOnly ==
    ReachedSet(last)
        => /\ OnlySetPhase(last)
           /\ \A i \in 1..Len(FieldNames(last.c)) :
                 (/\ FieldNames(last.c)[i] \notin Hooked(last.c, "setter")
                  /\ ~DeclaredByShiftField(last.c, FieldNames(last.c)[i])
                  /\ ~MissingTaken(last, FieldNames(last.c)[i]))
                     => SetField(last, FieldNames(last.c)[i])

\* x = I(); x.set(): o: Optional[int], without default, is None and xs: list
\* is Missing, and set() returned
C27_MissingTaken ==
    /\ last.op = "set" /\ last.c = <<"I">> /\ last.st = "ok"
    /\ last.data = DictV(<<>>)
    /\ AttrOf(last.after, <<"o">>) = NoneV
    /\ AttrOf(last.after, <<"xs">>) = Missing

\* x = P(a=1, b='y'); x.set(a=1): a is 1 and b is back at its default 'x'
C27_Reset ==
    /\ last.op = "set" /\ last.c = <<"P">> /\ last.st = "ok"
    /\ AttrOf(last.before, <<"b">>) = S("y")
    /\ ~DictHas(last.data, <<"b">>)
    /\ AttrOf(last.after, <<"b">>) = S("x")
    /\ Took(last, "set", <<"b">>)
    /\ ~Took(last, "transform", <<"b">>) /\ ~Took(last, "validation", <<"b">>)

\* x = G(val=12); x.set(): val, declared as ShiftField(default=5, ge=10),
\* has a set error and keeps 12
C27_DefaultLost ==
    /\ last.op = "set" /\ last.c = <<"G">> /\ last.st = "ShiftModelError"
    /\ ~DictHas(last.data, <<"val">>)
    /\ DeclaredDefault(last.c, <<"val">>) = IntV(5)
    /\ <<"val">> \in ErrorNames(last)
    /\ AttrOf(last.after, <<"val">>) = IntV(12)

\* x = A(); x.set(): val, declared as ShiftField(default=5,
\* default_skips=True, ge=10), held 5 and is the Missing sentinel after a
\* set() that returned
C27_MissingAssigned ==
    /\ last.op = "set" /\ last.c = <<"A">> /\ last.st = "ok"
    /\ ~DictHas(last.data, <<"val">>)
    /\ AttrOf(last.before, <<"val">>) = IntV(5)
    /\ AttrOf(last.after, <<"val">>) = Missing


\* the cached config of the class of a call is the one a new model info of
\* the class would get: DEFAULT_SHIFT_CONFIG was not changed since the model
\* info was built, or the class does not depend on it
SameConfig(call) ==
    call.cached = <<get_shift_config(Classes(config)[call.c], Globals)>>

\* C28: a construction served from the cached model info of its class gives
\* what the same construction gives when it builds the model info: the same
\* instance, or the same error with the same field errors, whatever the
\* arguments of the construction that built the cached model info were.
\* (The cached config is a copy, which a later change of
\* DEFAULT_SHIFT_CONFIG does not reach: the two constructions are compared
\* under the same config.)
C28_TransparentCache ==
    (last.op = "init" /\ ~last.first /\ SameConfig(last))
        => [st |-> last.st, err |-> last.err, res |-> last.res] = last.alone

\* F(a=1, b=2, c={"v": 1}) was served from the cache, whose descriptors hold
\* the types the first construction resolved, and returned the instance
C28_Witness ==
    /\ last.op = "init" /\ ~last.first /\ last.c = <<"F">> /\ last.st = "ok"
    /\ SameConfig(last) /\ last.alone.st = "ok"
    /\ shift_info_registry[<<"F">>].fields[1].typ = IntT

\* a construction of P served from the cache raised the errors of two fields
C28_Failed ==
    /\ last.op = "init" /\ ~last.first /\ last.c = <<"P">>
    /\ last.st = "ShiftModelError" /\ Cardinality(ErrorNames(last)) >= 2
    /\ SameConfig(last) /\ last.alone.st = "ShiftModelError"


\* the annotated fields of class c that are not declared through a ShiftField
PlainFields(c) ==
    {name \in {Classes(config)[c].annotations[j].name :
                   j \in 1..Len(Classes(config)[c].annotations)} :
        ~DeclaredByShiftField(c, name)}

\* a construction that returned, with do_processing, the stock type handlers
\* and no function of the program among the attributes of the class
Processed(call) ==
    /\ call.op = "init" /\ call.st = "ok" /\ StockHandlers
    /\ call.used # <<>> /\ call.used[1].do_processing
    /\ \A j \in 1..Len(Classes(config)[call.c].dict) :
           ~IsCallable(Classes(config)[call.c].dict[j].e[1])

\* what C29 states of the field name of a construction that returned: the
\* attribute is not Missing, and it is None when the call gave no value and
\* the class no default
Assigned(call, name) ==
    /\ AttrOf(call.after, name) # Missing
    /\ (~DictHas(call.data, name) /\ DeclaredDefault(call.c, name) = Missing)
           => AttrOf(call.after, name) = NoneV

\* C29: after a construction that returned (do_processing, no functions of
\* the program) no field declared without a ShiftField holds Missing: a
\* field without value and without default is None or the construction
\* failed, whatever the declared type.
C29_NoMissing ==
    Processed(last) => \A name \in PlainFields(last.c) : Assigned(last, name)

\* the same for the fields whose type is not list, tuple or dict without
\* type arguments
C29_TypedNoMissing ==
    Processed(last)
        => \A name \in PlainFields(last.c) :
              ~IsBareContainer(DeclaredType(last.c, name)) => Assigned(last, name)

\* I() returned: xs: list, t: tuple and d: dict hold Missing
C29_BareMissing ==
    /\ Processed(last) /\ last.c = <<"I">> /\ last.data = DictV(<<>>)
    /\ AttrOf(last.after, <<"xs">>) = Missing
    /\ AttrOf(last.after, <<"t">>) = Missing
    /\ AttrOf(last.after, <<"d">>) = Missing

\* I() returned: o: Optional[int], without value and default, is None
C29_NoneAssigned ==
    /\ Processed(last) /\ last.c = <<"I">> /\ ~DictHas(last.data, <<"o">>)
    /\ AttrOf(last.after, <<"o">>) = NoneV


\* C30: a construction, returned or raised, leaves the lists and dicts the
\* caller passed as keyword arguments with the elements they had.
C30_InputsUnchanged ==
    last.op = "init" => last.data_after = last.data


\* the same for the classes other than C, whose field is bs: list[B]
C30_OthersUnchanged ==
    (last.op = "init" /\ last.c # <<"C">>) => last.data_after = last.data

\* C(bs=[{"v": 1}]) returned: the list the caller passed holds the B the
\* setter constructed in the place of the dict
C30_Replaced ==
    /\ last.op = "init" /\ last.c = <<"C">> /\ last.st = "ok"
    /\ DictGet(last.data, <<"bs">>) = ListV(<<GoodB>>)
    /\ DictGet(last.data_after, <<"bs">>) = ListV(<<InstB(1)>>)

\* a construction of C raised and left a B in the list the caller passed
C30_ReplacedThenRaised ==
    /\ last.op = "init" /\ last.c = <<"C">> /\ last.st # "ok"
    /\ last.data_after # last.data
    /\ \E j \in 1..Len(DictGet(last.data_after, <<"bs">>).e) :
           DictGet(last.data_after, <<"bs">>).e[j].k = "ShiftModel"

====
